---- MODULE Spec2Model ----
(***************************************************************************)
(* A model of Bio/TreeIO/PhyloXMLIO.py: the streaming phyloXML parser      *)
(* (Parser.read, Parser.parse and the recursive _parse_* frames, driven by *)
(* ElementTree.iterparse start/end events) and the mirrored Writer.        *)
(*                                                                         *)
(* Python values are records with a kind field k, so that values of        *)
(* different Python types can be compared: None, str, float, int, bool.    *)
(* Objects of Bio.Tree.PhyloXML are records with one field per attribute.  *)
(***************************************************************************)
EXTENDS Integers, Sequences, FiniteSets, TLC

VARIABLES
    arg,        \* the object handed to write()
    dest,       \* the element tree written to the destination, None before
    profile,    \* the tag alphabet and values the document source draws from
    feed,       \* events still to come when the document is a fixed one
    heap,       \* the ElementTree elements built so far, by id (clear() acts here)
    dom,        \* the document as the tokenizer saw it: heap without any clear()
    open,       \* ids of the elements the tokenizer has open, outermost first
    last,       \* the last event fetched from the cursor
    frames,     \* the parser's call stack, outermost first
    pc,         \* "write", "written", "run", "yield", "done", "failed", "abandoned"
    err,        \* the exception that ended the run, when pc = "failed"
    yielded,    \* the trees the parse() generator has yielded so far
    result,     \* what read() returned
    returns     \* history: which frame returned at which event

vars == <<arg, dest, profile, feed, heap, dom, open, last, frames, pc, err,
          yielded, result, returns>>

\* ---------------------------------------------------------------- bounds

MaxElems == 5
MaxDepth == 5

\* The largest zero-based coordinate of a protein domain
MaxCoord == 3

\* The largest number of children of the sequence of a file
MaxKids == 3

\* ---------------------------------------------------------------- values

None == [k |-> "None"]
S(x) == [k |-> "str", v |-> x]
F(x) == [k |-> "float", v |-> x]
I(x) == [k |-> "int", v |-> x]
B(x) == [k |-> "bool", v |-> x]

Ok(x) == [ok |-> TRUE, v |-> x]
Raise(kind) == [ok |-> FALSE, err |-> kind]

\* Python truth value of a scalar: None, '', 0, 0.0 and False are false.
Truthy(x) ==
    CASE x.k = "None" -> FALSE
      [] x.k = "str" -> x.v # ""
      [] x.k = "float" -> x.v # "0.0"
      [] x.k = "int" -> x.v # 0
      [] x.k = "bool" -> x.v
      [] OTHER -> TRUE

Last(s) == s[Len(s)]
Front(s) == SubSeq(s, 1, Len(s) - 1)

\* ---------------------------------------------------------------- names

\* An element tag or a namespaced attribute key '{ns}name' is the record
\* [ns, name]; a tag written without any namespace has ns = NoNS.
PhyNS == "http://www.phyloxml.org"
XNS == "http://example.org/x"
XsiNS == "http://www.w3.org/2001/XMLSchema-instance"
NoNS == "(no namespace)"

\* '{%s}%s' % (namespace, tag)
_ns(tag, namespace) == [ns |-> namespace, name |-> tag]

Phy(tag) == _ns(tag, PhyNS)

\* tag[tag.index('}')+1:] when the tag starts with '{', else the tag itself
local(tag) == tag.name

\* text[1:] of the local names the documents use without a namespace
Drop1(name) ==
    CASE name = "bare" -> "are"
      [] name = "phylogeny" -> "hylogeny"
      [] OTHER -> name

\* tag[1:].split('}', 1): a list of two strings for '{ns}name', and a list of
\* one string when the tag holds no '}' (split never raises, so the except
\* branch is not taken).
split_namespace(tag) ==
    IF tag.ns = NoNS THEN <<Drop1(tag.name)>> ELSE <<tag.ns, tag.name>>

\* ---------------------------------------------------------------- scalar converters

\* float(text) of the texts the documents use; the float is named by its repr
FloatTexts == {"0", "0.0", "1.5", "2", "2.0"}
FloatOf(t) ==
    CASE t \in {"0", "0.0"} -> "0.0"
      [] t = "1.5" -> "1.5"
      [] t \in {"2", "2.0"} -> "2.0"

\* int(text) of the texts the documents use
IntTexts == {"-1", "0", "1", "2", "3", "4", "5", "6", "7", "8", "9"}
IntOf(t) ==
    CASE t = "-1" -> -1
      [] t = "0" -> 0
      [] t = "1" -> 1
      [] t = "2" -> 2
      [] t = "3" -> 3
      [] t = "4" -> 4
      [] t = "5" -> 5
      [] t = "6" -> 6
      [] t = "7" -> 7
      [] t = "8" -> 8
      [] t = "9" -> 9

\* Python's float(x): TypeError for None, ValueError for text that is no number
PyFloat(x) ==
    IF x.k = "None" THEN Raise("TypeError")
    ELSE IF x.k = "float" THEN Ok(x)
    ELSE IF x.k = "str" /\ x.v \in FloatTexts THEN Ok(F(FloatOf(x.v)))
    ELSE Raise("ValueError")

\* Python's int(x)
PyInt(x) ==
    IF x.k = "None" THEN Raise("TypeError")
    ELSE IF x.k = "int" THEN Ok(x)
    ELSE IF x.k = "str" /\ x.v \in IntTexts THEN Ok(I(IntOf(x.v)))
    ELSE Raise("ValueError")

\* unicode(x): identity on text
PyUnicode(x) == Ok(x)

\* str2bool ignoring the case of the token
AnyCaseBool(text) ==
    IF text \in {S("true"), S("True"), S("TRUE")} THEN Ok(B(TRUE))
    ELSE IF text \in {S("false"), S("False"), S("FALSE")} THEN Ok(B(FALSE))
    ELSE Raise("ValueError")

str2bool(text) ==
    IF text = S("true") THEN Ok(B(TRUE))
    ELSE IF text = S("false") THEN Ok(B(FALSE))
    ELSE Raise("ValueError")

\* dct.copy() with str2bool applied to the listed keys that are present;
\* the first failing key raises.
dict_str2bool(dct, keys) ==
    LET hit == {key \in keys \cap DOMAIN dct : ~str2bool(dct[key]).ok}
    IN  IF hit # {} THEN Raise("ValueError")
        ELSE Ok([key \in DOMAIN dct |->
                   IF key \in keys THEN str2bool(dct[key]).v ELSE dct[key]])

_int(text) ==
    IF text.k = "None" THEN None
    ELSE IF PyInt(text).ok THEN PyInt(text).v ELSE None

_float(text) ==
    IF text.k = "None" THEN None
    ELSE IF PyFloat(text).ok THEN PyFloat(text).v ELSE None

\* ' '.join(text.split()) of the texts the documents use
Collapse(t) ==
    CASE t = " a  b " -> "a b"
      [] OTHER -> t

\* text.strip() of the texts the documents use
Strip(t) ==
    CASE t = " a  b " -> "a  b"
      [] OTHER -> t

collapse_wspace(text) ==
    IF text.k = "None" THEN None ELSE S(Collapse(text.v))

\* elem.text.strip(): AttributeError when the element has no text
StripText(text) ==
    IF text.k = "None" THEN Raise("AttributeError") ELSE Ok(S(Strip(text.v)))

\* elem.text and elem.text.strip() or None
StripOrNone(text) ==
    IF Truthy(text) /\ Truthy(S(Strip(text.v))) THEN S(Strip(text.v)) ELSE None

\* ---------------------------------------------------------------- elements

\* A new ElementTree element
Element(tag, attrib, text) ==
    [tag |-> tag, attrib |-> attrib, text |-> text, kids |-> <<>>]

\* elem.get(key)
Get(h, elem, key) ==
    IF key \in DOMAIN h[elem].attrib THEN h[elem].attrib[key] ELSE None

\* Element.clear(): drops the children, the attributes and the text
Clear(h, elem) ==
    [h EXCEPT ![elem] = [@ EXCEPT !.attrib = <<>>, !.text = None, !.kids = <<>>]]

\* parent.findall(tag): the children with that tag, in document order
FindAll(h, parent, tag) ==
    SelectSeq(h[parent].kids, LAMBDA c : h[c].tag = tag)

\* The results of a sequence of evaluations, left to right: the list of their
\* values, or the first exception
Collect(rs) ==
    IF \A i \in 1..Len(rs) : rs[i].ok THEN Ok([i \in 1..Len(rs) |-> rs[i].v])
    ELSE rs[CHOOSE i \in 1..Len(rs) : ~rs[i].ok /\ \A j \in 1..(i - 1) : rs[j].ok]

\* A constructor call whose arguments were evaluated to args
Make(args, new(_)) == IF args.ok THEN Ok(new(args.v)) ELSE args

\* construct(text) for the constructors handed to get_child_text and
\* get_children_text
PyCall(construct, x) ==
    CASE construct = "unicode" -> PyUnicode(x)
      [] construct = "float" -> PyFloat(x)
      [] construct = "int" -> PyInt(x)

RECURSIVE Convert(_, _, _)

\* construct(child) of the first child found, None when there is none; the
\* constructor is a method of Parser, named
FirstAs(h, found, construct) ==
    IF found = <<>> THEN Ok(None) ELSE Convert(construct, h, found[1])

get_child_as(h, parent, tag, construct) ==
    FirstAs(h, FindAll(h, parent, Phy(tag)), construct)

\* x or None
OrNone(r) == IF r.ok /\ ~Truthy(r.v) THEN Ok(None) ELSE r

\* child.text and construct(child.text) or None
TextAs(text, construct) ==
    IF Truthy(text) THEN OrNone(PyCall(construct, text)) ELSE Ok(None)

FirstText(h, found, construct) ==
    IF found = <<>> THEN Ok(None) ELSE TextAs(h[found[1]].text, construct)

get_child_text(h, parent, tag, construct) ==
    FirstText(h, FindAll(h, parent, Phy(tag)), construct)

EachAs(h, found, construct) ==
    Collect([i \in 1..Len(found) |-> Convert(construct, h, found[i])])

get_children_as(h, parent, tag, construct) ==
    EachAs(h, FindAll(h, parent, Phy(tag)), construct)

EachText(h, found, construct) ==
    Collect([i \in 1..Len(found) |-> PyCall(construct, h[found[i]].text)])

get_children_text(h, parent, tag, construct) ==
    EachText(h, SelectSeq(FindAll(h, parent, Phy(tag)),
                          LAMBDA c : Truthy(h[c].text)), construct)

\* ---------------------------------------------------------------- Parser: node constructors

RECURSIVE other(_, _, _)

\* self.other(child, *split_namespace(child.tag)): the call needs two strings
OtherOf(h, elem, sp) ==
    IF Len(sp) # 2 THEN Raise("TypeError") ELSE other(h, elem, sp)

other(h, elem, sp) ==
    Make(Collect([i \in 1..Len(h[elem].kids) |->
                    OtherOf(h, h[elem].kids[i],
                            split_namespace(h[h[elem].kids[i]].tag))]),
         LAMBDA children :
            [cls |-> "Other", tag |-> sp[2], namespace |-> sp[1],
             attributes |-> h[elem].attrib,
             value |-> StripOrNone(h[elem].text),
             children |-> children])

confidence(h, elem) ==
    Ok([cls |-> "Confidence", value |-> _float(h[elem].text),
        type |-> Get(h, elem, "type")])

\* a or b
Or(a, b) == IF Truthy(a) THEN a ELSE b

id(h, elem) ==
    Make(StripText(h[elem].text),
         LAMBDA text :
            [cls |-> "Id", value |-> text,
             provider |-> Or(Get(h, elem, "provider"), Get(h, elem, "type"))])

date(h, elem) ==
    Make(Collect(<<get_child_text(h, elem, "desc", "unicode"),
                   get_child_text(h, elem, "value", "float"),
                   get_child_text(h, elem, "minimum", "float"),
                   get_child_text(h, elem, "maximum", "float")>>),
         LAMBDA a :
            [cls |-> "Date", unit |-> Get(h, elem, "unit"),
             desc |-> collapse_wspace(a[1]), value |-> a[2],
             minimum |-> a[3], maximum |-> a[4]])

clade_relation(h, elem) ==
    Make(get_child_as(h, elem, "confidence", "confidence"),
         LAMBDA conf :
            [cls |-> "CladeRelation", type |-> Get(h, elem, "type"),
             id_ref_0 |-> Get(h, elem, "id_ref_0"),
             id_ref_1 |-> Get(h, elem, "id_ref_1"),
             distance |-> Get(h, elem, "distance"),
             confidence |-> conf])

sequence_relation(h, elem) ==
    Make(get_child_as(h, elem, "confidence", "confidence"),
         LAMBDA conf :
            [cls |-> "SequenceRelation", type |-> Get(h, elem, "type"),
             id_ref_0 |-> Get(h, elem, "id_ref_0"),
             id_ref_1 |-> Get(h, elem, "id_ref_1"),
             distance |-> _float(Get(h, elem, "distance")),
             confidence |-> conf])

property(h, elem) ==
    Make(StripText(h[elem].text),
         LAMBDA text :
            [cls |-> "Property", value |-> text,
             ref |-> Get(h, elem, "ref"),
             applies_to |-> Get(h, elem, "applies_to"),
             datatype |-> Get(h, elem, "datatype"),
             unit |-> Get(h, elem, "unit"),
             id_ref |-> Get(h, elem, "id_ref")])

color(h, elem) ==
    Make(Collect(<<get_child_text(h, elem, "red", "int"),
                   get_child_text(h, elem, "green", "int"),
                   get_child_text(h, elem, "blue", "int")>>),
         LAMBDA a :
            [cls |-> "BranchColor", red |-> a[1], green |-> a[2],
             blue |-> a[3]])

events(h, elem) ==
    Make(Collect(<<get_child_text(h, elem, "type", "unicode"),
                   get_child_text(h, elem, "duplications", "int"),
                   get_child_text(h, elem, "speciations", "int"),
                   get_child_text(h, elem, "losses", "int"),
                   get_child_as(h, elem, "confidence", "confidence")>>),
         LAMBDA a :
            [cls |-> "Events", type |-> a[1], duplications |-> a[2],
             speciations |-> a[3], losses |-> a[4], confidence |-> a[5]])

reference(h, elem) ==
    Make(get_child_text(h, elem, "desc", "unicode"),
         LAMBDA desc :
            [cls |-> "Reference", doi |-> Get(h, elem, "doi"),
             desc |-> desc])

uri(h, elem) ==
    Make(StripText(h[elem].text),
         LAMBDA text :
            [cls |-> "Uri", value |-> text,
             desc |-> collapse_wspace(Get(h, elem, "desc")),
             type |-> Get(h, elem, "type")])

accession(h, elem) ==
    Make(StripText(h[elem].text),
         LAMBDA text :
            [cls |-> "Accession", value |-> text,
             source |-> Get(h, elem, "source")])

\* is_aligned = elem.get('is_aligned'), through str2bool unless it is None
IsAligned(attr) == IF attr.k = "None" THEN Ok(None) ELSE str2bool(attr)

mol_seq(h, elem) ==
    Make(Collect(<<IsAligned(Get(h, elem, "is_aligned")),
                   StripText(h[elem].text)>>),
         LAMBDA a : [cls |-> "MolSeq", value |-> a[2], is_aligned |-> a[1]])

\* cls(**attrib): the attributes the element carries become fields; a keyword
\* the class does not take is a TypeError
Construct(new, attrib) ==
    IF DOMAIN attrib \subseteq (DOMAIN new \ {"cls"}) THEN Ok(attrib @@ new)
    ELSE Raise("TypeError")

AnnotationNew ==
    [cls |-> "Annotation", ref |-> None, source |-> None, evidence |-> None,
     type |-> None, desc |-> None, confidence |-> None, properties |-> <<>>,
     uri |-> None]

annotation(h, elem) ==
    Make(Collect(<<get_child_text(h, elem, "desc", "unicode"),
                   get_child_as(h, elem, "confidence", "confidence"),
                   get_children_as(h, elem, "property", "property"),
                   get_child_as(h, elem, "uri", "uri"),
                   Construct(AnnotationNew, h[elem].attrib)>>),
         LAMBDA a :
            [a[5] EXCEPT !.desc = collapse_wspace(a[1]), !.confidence = a[2],
                         !.properties = a[3], !.uri = a[4]])

\* get_children_text(elem, 'bc') of a gained/lost/present/absent child, as a
\* wrapped list so that it can stand where None can
bc_getter(h, elem) ==
    Make(get_children_text(h, elem, "bc", "unicode"),
         LAMBDA toks : [k |-> "list", v |-> toks])

binary_characters(h, elem) ==
    Make(Collect(<<get_child_as(h, elem, "gained", "bc_getter"),
                   get_child_as(h, elem, "lost", "bc_getter"),
                   get_child_as(h, elem, "present", "bc_getter"),
                   get_child_as(h, elem, "absent", "bc_getter")>>),
         LAMBDA a :
            [cls |-> "BinaryCharacters", type |-> Get(h, elem, "type"),
             gained_count |-> _int(Get(h, elem, "gained_count")),
             lost_count |-> _int(Get(h, elem, "lost_count")),
             present_count |-> _int(Get(h, elem, "present_count")),
             absent_count |-> _int(Get(h, elem, "absent_count")),
             gained |-> a[1], lost |-> a[2], present |-> a[3],
             absent |-> a[4]])

point(h, elem) ==
    Make(Collect(<<get_child_text(h, elem, "lat", "float"),
                   get_child_text(h, elem, "long", "float"),
                   get_child_text(h, elem, "alt", "float")>>),
         LAMBDA a :
            [cls |-> "Point",
             geodetic_datum |-> Get(h, elem, "geodetic_datum"),
             lat |-> a[1], long |-> a[2], alt |-> a[3],
             alt_unit |-> Get(h, elem, "alt_unit")])

polygon(h, elem) ==
    Make(get_children_as(h, elem, "point", "point"),
         LAMBDA points : [cls |-> "Polygon", points |-> points])

distribution(h, elem) ==
    Make(Collect(<<get_child_text(h, elem, "desc", "unicode"),
                   get_children_as(h, elem, "point", "point"),
                   get_children_as(h, elem, "polygon", "polygon")>>),
         LAMBDA a :
            [cls |-> "Distribution", desc |-> collapse_wspace(a[1]),
             points |-> a[2], polygons |-> a[3]])

\* int(x), with no offset
SameInt(r) == r

\* int(x) - 1
MinusOne(r) == IF r.ok THEN Ok(I(r.v.v - 1)) ELSE r

domain(h, elem) ==
    Make(Collect(<<StripText(h[elem].text),
                   MinusOne(PyInt(Get(h, elem, "from"))),
                   PyInt(Get(h, elem, "to"))>>),
         LAMBDA a :
            [cls |-> "ProteinDomain", value |-> a[1], start |-> a[2],
             end |-> a[3],
             confidence |-> _float(Get(h, elem, "confidence")),
             id |-> Get(h, elem, "id")])

domain_architecture(h, elem) ==
    Make(Collect(<<PyInt(Get(h, elem, "length")),
                   get_children_as(h, elem, "domain", "domain")>>),
         LAMBDA a :
            [cls |-> "DomainArchitecture", length |-> a[1], domains |-> a[2]])

\* getattr(self, tag)(elem) for the tags the _parse_* methods dispatch on,
\* and the bound methods handed to get_child_as and get_children_as
Convert(tag, h, elem) ==
    CASE tag = "confidence" -> confidence(h, elem)
      [] tag = "point" -> point(h, elem)
      [] tag = "polygon" -> polygon(h, elem)
      [] tag = "domain" -> domain(h, elem)
      [] tag = "bc_getter" -> bc_getter(h, elem)
      [] tag = "property" -> property(h, elem)
      [] tag = "clade_relation" -> clade_relation(h, elem)
      [] tag = "sequence_relation" -> sequence_relation(h, elem)
      [] tag = "date" -> date(h, elem)
      [] tag = "id" -> id(h, elem)
      [] tag = "color" -> color(h, elem)
      [] tag = "events" -> events(h, elem)
      [] tag = "binary_characters" -> binary_characters(h, elem)
      [] tag = "distribution" -> distribution(h, elem)
      [] tag = "reference" -> reference(h, elem)
      [] tag = "accession" -> accession(h, elem)
      [] tag = "mol_seq" -> mol_seq(h, elem)
      [] tag = "uri" -> uri(h, elem)
      [] tag = "domain_architecture" -> domain_architecture(h, elem)
      [] tag = "annotation" -> annotation(h, elem)

\* ---------------------------------------------------------------- the objects built

\* The attributes of each Bio.Tree.PhyloXML class as the Parser sets and the
\* Writer reads them, with the value a new object holds.
PhyloxmlNew(attributes) ==
    [cls |-> "Phyloxml", attributes |-> attributes, phylogenies |-> <<>>,
     other |-> <<>>]

PhylogenyNew ==
    [cls |-> "Phylogeny", rooted |-> None, rerootable |-> None,
     branch_length_unit |-> None, type |-> None, name |-> None, id |-> None,
     description |-> None, date |-> None, confidences |-> <<>>,
     clade |-> None, clade_relations |-> <<>>, sequence_relations |-> <<>>,
     properties |-> <<>>, other |-> <<>>]

CladeNew ==
    [cls |-> "Clade", id_source |-> None, name |-> None,
     branch_length |-> None, confidences |-> <<>>, width |-> None,
     color |-> None, node_id |-> None, taxonomies |-> <<>>,
     sequences |-> <<>>, events |-> None, binary_characters |-> None,
     distributions |-> <<>>, date |-> None, references |-> <<>>,
     properties |-> <<>>, clades |-> <<>>, other |-> <<>>]

SequenceNew ==
    [cls |-> "Sequence", type |-> None, id_ref |-> None, id_source |-> None,
     symbol |-> None, accession |-> None, name |-> None, location |-> None,
     mol_seq |-> None, uri |-> None, annotations |-> <<>>,
     domain_architecture |-> None, other |-> <<>>]

TaxonomyNew ==
    [cls |-> "Taxonomy", id_source |-> None, id |-> None, code |-> None,
     scientific_name |-> None, authority |-> None, common_names |-> <<>>,
     synonyms |-> <<>>, rank |-> None, uri |-> None, other |-> <<>>]

\* ---------------------------------------------------------------- Parser: frames

\* One activation of read, parse or a _parse_* method: its element, the
\* object it builds and its local variables.
Frame(fn, parent, obj) ==
    [fn |-> fn, parent |-> parent, obj |-> obj, tag_stack |-> <<>>,
     other_depth |-> 0]

\* What handling one event does to the frame that handles it.
Cont(h, f) == [kind |-> "cont", heap |-> h, frame |-> f]
Call(h, f, fn, elem) ==
    [kind |-> "call", heap |-> h, frame |-> f, fn |-> fn, elem |-> elem]
Return(h, f) == [kind |-> "return", heap |-> h, frame |-> f]
Throw(h, kind) == [kind |-> "raise", heap |-> h, err |-> kind]

\* setattr(obj, field, r), or the exception evaluating r raised
SetAttr(h, f, field, r) ==
    IF r.ok THEN Cont(h, [f EXCEPT !.obj[field] = r.v]) ELSE Throw(h, r.err)

\* getattr(obj, field).append(r), or the exception evaluating r raised
AppendTo(h, f, field, r) ==
    IF r.ok THEN Cont(h, [f EXCEPT !.obj[field] = Append(@, r.v)])
    ELSE Throw(h, r.err)

\* The frame of a method whose object was constructed as r
Entered(fn, elem, r) == IF r.ok THEN Ok(Frame(fn, elem, r.v)) ELSE r

\* Phylogeny(**dict_str2bool(parent.attrib, ['rooted', 'rerootable']))
NewPhylogeny(attrs) ==
    IF attrs.ok THEN Construct(PhylogenyNew, attrs.v) ELSE attrs

\* clade.branch_length = float(clade.branch_length) unless it is None
FloatBranchLength(clade, bl) ==
    IF clade.branch_length = None THEN Ok(clade)
    ELSE IF bl.ok THEN Ok([clade EXCEPT !.branch_length = bl.v])
    ELSE bl

\* Clade(**parent.attrib) and the conversion of its branch_length
NewClade(r) ==
    IF r.ok THEN FloatBranchLength(r.v, PyFloat(r.v.branch_length)) ELSE r

\* The statements a _parse_* method runs before its event loop.
Enter(h, fn, elem) ==
    CASE fn = "phylogeny" ->
           Entered(fn, elem,
                   NewPhylogeny(dict_str2bool(h[elem].attrib,
                                              {"rooted", "rerootable"})))
      [] fn = "clade" ->
           Entered(fn, elem, NewClade(Construct(CladeNew, h[elem].attrib)))
      [] fn = "sequence" ->
           Entered(fn, elem, Construct(SequenceNew, h[elem].attrib))
      [] fn = "taxonomy" ->
           Entered(fn, elem, Construct(TaxonomyNew, h[elem].attrib))

list_types ==
    [confidence |-> "confidences", property |-> "properties",
     clade_relation |-> "clade_relations",
     sequence_relation |-> "sequence_relations"]

\* The end event of a child in _parse_phylogeny
PhylogenyChild(h, f, namespace, tag, elem) ==
    IF tag = "phylogeny" THEN Return(Clear(h, f.parent), f)
    ELSE IF tag \in DOMAIN list_types THEN
        AppendTo(h, f, list_types[tag], Convert(tag, h, elem))
    ELSE IF tag \in {"date", "id"} THEN
        SetAttr(h, f, tag, Convert(tag, h, elem))
    ELSE IF tag \in {"name", "description"} THEN
        SetAttr(h, f, tag, Ok(collapse_wspace(h[elem].text)))
    ELSE IF namespace # PhyNS THEN
        AppendTo(Clear(h, f.parent), f, "other",
                 other(h, elem, <<namespace, tag>>))
    ELSE Throw(h, "PhyloXMLError")

\* One iteration of the loop of _parse_phylogeny, on event ev of element
\* elem; sp is split_namespace(elem.tag)
PhylogenyEvent(h, f, ev, elem, sp) ==
    IF Len(sp) # 2 THEN Throw(h, "ValueError")
    ELSE IF ev = "start" /\ sp[2] = "clade" THEN
        IF f.obj.clade # None THEN Throw(h, "AssertionError")
        ELSE Call(h, f, "clade", elem)
    ELSE IF ev = "end" THEN PhylogenyChild(h, f, sp[1], sp[2], elem)
    ELSE Cont(h, f)

_parse_phylogeny(h, f, ev, elem) ==
    PhylogenyEvent(h, f, ev, elem, split_namespace(h[elem].tag))

_clade_complex_types == {"color", "events", "binary_characters", "date"}

_clade_list_types ==
    [confidence |-> "confidences", distribution |-> "distributions",
     reference |-> "references", property |-> "properties"]

_clade_tracked_tags ==
    _clade_complex_types \cup DOMAIN _clade_list_types
        \cup {"branch_length", "name", "node_id", "width"}

\* What _parse_clade does with the end event of the tag it just popped
CladeChild(h, f, namespace, tag, elem) ==
    IF tag \in DOMAIN _clade_list_types THEN
        AppendTo(h, f, _clade_list_types[tag], Convert(tag, h, elem))
    ELSE IF tag \in _clade_complex_types THEN
        SetAttr(h, f, tag, Convert(tag, h, elem))
    ELSE IF tag = "branch_length" THEN
        IF f.obj.branch_length # None THEN Throw(h, "PhyloXMLError")
        ELSE SetAttr(h, f, tag, Ok(_float(h[elem].text)))
    ELSE IF tag = "width" THEN
        SetAttr(h, f, tag, Ok(_float(h[elem].text)))
    ELSE IF tag = "name" THEN
        SetAttr(h, f, tag, Ok(collapse_wspace(h[elem].text)))
    ELSE IF tag = "node_id" THEN
        SetAttr(h, f, tag, Ok(StripOrNone(h[elem].text)))
    ELSE IF namespace # PhyNS THEN
        AppendTo(Clear(h, elem), f, "other", other(h, elem, <<namespace, tag>>))
    ELSE Throw(h, "PhyloXMLError")

\* The loop of _parse_clade without tag_stack.pop()
CladeEventNoPop(h, f, ev, elem, sp) ==
    IF Len(sp) # 2 THEN Throw(h, "ValueError")
    ELSE IF ev = "start" THEN
        IF sp[2] \in {"clade", "taxonomy", "sequence"} THEN Call(h, f, sp[2], elem)
        ELSE IF sp[2] \in _clade_tracked_tags THEN
            Cont(h, [f EXCEPT !.tag_stack = Append(@, sp[2])])
        ELSE Cont(h, f)
    ELSE IF sp[2] = "clade" THEN Return(Clear(h, elem), f)
    ELSE IF f.tag_stack = <<>> THEN Throw(h, "IndexError")
    ELSE IF sp[2] # Last(f.tag_stack) THEN Cont(h, f)
    ELSE CladeChild(h, f, sp[1], sp[2], elem)

\* One iteration of the loop of _parse_clade
CladeEvent(h, f, ev, elem, sp) ==
    IF Len(sp) # 2 THEN Throw(h, "ValueError")
    ELSE IF ev = "start" THEN
        IF sp[2] \in {"clade", "taxonomy", "sequence"} THEN Call(h, f, sp[2], elem)
        ELSE IF sp[2] \in _clade_tracked_tags THEN
            Cont(h, [f EXCEPT !.tag_stack = Append(@, sp[2])])
        ELSE Cont(h, f)
    ELSE IF sp[2] = "clade" THEN Return(Clear(h, elem), f)
    ELSE IF f.tag_stack = <<>> THEN Throw(h, "IndexError")
    ELSE IF sp[2] # Last(f.tag_stack) THEN Cont(h, f)
    ELSE CladeChild(h, [f EXCEPT !.tag_stack = Front(@)], sp[1], sp[2], elem)

_parse_clade(h, f, ev, elem) ==
    CladeEvent(h, f, ev, elem, split_namespace(h[elem].tag))

\* One iteration of the loop of _parse_sequence
SequenceEvent(h, f, ev, elem, sp) ==
    IF Len(sp) # 2 THEN Throw(h, "ValueError")
    ELSE IF ev # "end" THEN Cont(h, f)
    ELSE IF sp[2] = "sequence" THEN Return(Clear(h, f.parent), f)
    ELSE IF sp[2] \in {"accession", "mol_seq", "uri", "domain_architecture"} THEN
        SetAttr(h, f, sp[2], Convert(sp[2], h, elem))
    ELSE IF sp[2] = "annotation" THEN
        AppendTo(h, f, "annotations", annotation(h, elem))
    ELSE IF sp[2] = "name" THEN
        SetAttr(h, f, "name", Ok(collapse_wspace(h[elem].text)))
    ELSE IF sp[2] \in {"symbol", "location"} THEN
        SetAttr(h, f, sp[2], Ok(h[elem].text))
    ELSE IF sp[1] # PhyNS THEN
        AppendTo(Clear(h, f.parent), f, "other", other(h, elem, sp))
    ELSE Cont(h, f)

_parse_sequence(h, f, ev, elem) ==
    SequenceEvent(h, f, ev, elem, split_namespace(h[elem].tag))

\* One iteration of the loop of _parse_taxonomy
TaxonomyEvent(h, f, ev, elem, sp) ==
    IF Len(sp) # 2 THEN Throw(h, "ValueError")
    ELSE IF ev # "end" THEN Cont(h, f)
    ELSE IF sp[2] = "taxonomy" THEN Return(Clear(h, f.parent), f)
    ELSE IF sp[2] \in {"id", "uri"} THEN
        SetAttr(h, f, sp[2], Convert(sp[2], h, elem))
    ELSE IF sp[2] = "common_name" THEN
        AppendTo(h, f, "common_names", Ok(collapse_wspace(h[elem].text)))
    ELSE IF sp[2] = "synonym" THEN
        AppendTo(h, f, "synonyms", Ok(h[elem].text))
    ELSE IF sp[2] \in {"code", "scientific_name", "authority", "rank"} THEN
        SetAttr(h, f, sp[2], Ok(h[elem].text))
    ELSE IF sp[1] # PhyNS THEN
        AppendTo(Clear(h, f.parent), f, "other", other(h, elem, sp))
    ELSE Cont(h, f)

_parse_taxonomy(h, f, ev, elem) ==
    TaxonomyEvent(h, f, ev, elem, split_namespace(h[elem].tag))

\* The end of a foreign element in Parser.read: other_depth -= 1, and at
\* depth 0 the element is recorded and the root cleared
ReadOther(h, f, elem, sp) ==
    IF f.other_depth - 1 = 0 THEN
        AppendTo(Clear(h, f.parent), [f EXCEPT !.other_depth = 0], "other",
                 other(h, elem, sp))
    ELSE Cont(h, [f EXCEPT !.other_depth = @ - 1])

\* One iteration of the loop of Parser.read; f.parent is self.root
ReadEvent(h, f, ev, elem, sp) ==
    IF Len(sp) # 2 THEN Throw(h, "ValueError")
    ELSE IF ev = "start" THEN
        IF sp[1] # PhyNS THEN Cont(h, [f EXCEPT !.other_depth = @ + 1])
        ELSE IF sp[2] = "phylogeny" THEN Call(h, f, "phylogeny", elem)
        ELSE Cont(h, f)
    ELSE IF sp[1] # PhyNS THEN ReadOther(h, f, elem, sp)
    ELSE Cont(h, f)

read(h, f, ev, elem) ==
    ReadEvent(h, f, ev, elem, split_namespace(h[elem].tag))

\* One iteration of the loop of Parser.parse
parse(h, f, ev, elem) ==
    IF ev = "start" /\ h[elem].tag = Phy("phylogeny")
    THEN Call(h, f, "phylogeny", elem)
    ELSE Cont(h, f)

\* dict((local(key), val) for key, val in self.root.items())
RootAttributes(items) ==
    [key \in {local(a) : a \in DOMAIN items} |->
        items[CHOOSE a \in DOMAIN items : local(a) = key]]

\* Parser.read's first statement: the Phyloxml built from the root's attributes
ReadFrame(attrib, root) ==
    Frame("read", root, PhyloxmlNew(RootAttributes(attrib)))

ParseFrame(root) == Frame("parse", root, None)

\* ---------------------------------------------------------------- Writer

\* unicode(n) of the integers the objects hold
IntStr(n) ==
    CASE n = -1 -> "-1"
      [] n = 0 -> "0"
      [] n = 1 -> "1"
      [] n = 2 -> "2"
      [] n = 3 -> "3"
      [] n = 4 -> "4"
      [] n = 5 -> "5"
      [] n = 6 -> "6"
      [] n = 7 -> "7"
      [] n = 8 -> "8"
      [] n = 9 -> "9"

IsObject(value) == "cls" \in DOMAIN value

\* unicode(obj) of an object of Bio.Tree.PhyloXML
ObjStr(obj) == IF obj.cls = "MolSeq" THEN obj.value ELSE S(obj.cls)

\* unicode(value), with no change of case
PlainUnicode(value) ==
    IF IsObject(value) THEN ObjStr(value)
    ELSE CASE value.k = "float" -> S(value.v)
           [] value.k = "bool" -> S(IF value.v THEN "True" ELSE "False")
           [] value.k = "int" -> S(IntStr(value.v))
           [] value.k = "None" -> S("None")
           [] value.k = "str" -> value
           [] OTHER -> S("[...]")

\* serialize(value): a float is named by its repr, which has no lower-case
\* letter for the floats used here
serialize(value) ==
    IF IsObject(value) THEN ObjStr(value)
    ELSE CASE value.k = "float" -> S(value.v)
           [] value.k = "bool" -> S(IF value.v THEN "true" ELSE "false")
           [] value.k = "int" -> S(IntStr(value.v))
           [] value.k = "None" -> S("None")
           [] value.k = "str" -> value
           [] OTHER -> S("[...]")

\* getattr(obj, name)
GetAttr(obj, name) ==
    IF name \in DOMAIN obj \ {"k", "v", "cls"} THEN Ok(obj[name])
    ELSE Raise("AttributeError")

\* The dictionary of the listed attributes of obj that are not None
_clean_attrib(obj, attrs) ==
    IF \E i \in 1..Len(attrs) : ~GetAttr(obj, attrs[i]).ok
    THEN Raise("AttributeError")
    ELSE Ok([key \in {attrs[i] : i \in {j \in 1..Len(attrs) :
                                           obj[attrs[j]] # None}} |->
                serialize(obj[key])])

\* An element of the tree the Writer builds, with its children inside
XElem(tag, attrib, text, kids) ==
    [tag |-> tag, attrib |-> attrib, text |-> text, kids |-> kids]

\* The concatenation of a list of lists
RECURSIVE Flat(_)
Flat(ss) == IF ss = <<>> THEN <<>> ELSE Head(ss) \o Flat(Tail(ss))

\* A subnode of _handle_complex: a singular field written by the method of
\* the same name, or a (method, plural) pair
One(name) == [method |-> name, field |-> name, list |-> FALSE]
Many(method, plural) == [method |-> method, field |-> plural, list |-> TRUE]

Complex(tag, attribs, subnodes, has_text) ==
    [simple |-> FALSE, tag |-> tag, attribs |-> attribs,
     subnodes |-> subnodes, has_text |-> has_text]

\* The methods of Writer made by _handle_complex
ComplexDefs ==
    [phylogeny |->
        Complex("phylogeny",
                <<"rooted", "rerootable", "branch_length_unit", "type">>,
                <<One("name"), One("id"), One("description"), One("date"),
                  Many("confidence", "confidences"), One("clade"),
                  Many("clade_relation", "clade_relations"),
                  Many("sequence_relation", "sequence_relations"),
                  Many("property", "properties"), Many("other", "other")>>,
                FALSE),
     clade |->
        Complex("clade", <<"id_source">>,
                <<One("name"), One("branch_length"),
                  Many("confidence", "confidences"), One("width"),
                  One("color"), One("node_id"),
                  Many("taxonomy", "taxonomies"),
                  Many("sequence", "sequences"), One("events"),
                  One("binary_characters"),
                  Many("distribution", "distributions"), One("date"),
                  Many("reference", "references"),
                  Many("property", "properties"), Many("clade", "clades"),
                  Many("other", "other")>>,
                FALSE),
     accession |-> Complex("accession", <<"source">>, <<>>, TRUE),
     annotation |->
        Complex("annotation", <<"ref", "source", "evidence", "type">>,
                <<One("desc"), One("confidence"),
                  Many("property", "properties"), One("uri")>>,
                FALSE),
     clade_relation |->
        Complex("clade_relation",
                <<"id_ref_0", "id_ref_1", "distance", "type">>,
                <<One("confidence")>>, FALSE),
     color |->
        Complex("color", <<>>, <<One("red"), One("green"), One("blue")>>,
                FALSE),
     confidence |-> Complex("confidence", <<"type">>, <<>>, TRUE),
     date |->
        Complex("date", <<"unit">>,
                <<One("desc"), One("value"), One("minimum"),
                  One("maximum")>>,
                FALSE),
     distribution |->
        Complex("distribution", <<>>,
                <<One("desc"), Many("point", "points"),
                  Many("polygon", "polygons")>>,
                FALSE),
     domain_architecture |->
        Complex("domain_architecture", <<"length">>,
                <<Many("domain", "domains")>>, FALSE),
     events |->
        Complex("events", <<>>,
                <<One("type"), One("duplications"), One("speciations"),
                  One("losses"), One("confidence")>>,
                FALSE),
     id |-> Complex("id", <<"provider">>, <<>>, TRUE),
     mol_seq |-> Complex("mol_seq", <<"is_aligned">>, <<>>, TRUE),
     node_id |-> Complex("node_id", <<"provider">>, <<>>, TRUE),
     point |->
        Complex("point", <<"geodetic_datum", "alt_unit">>,
                <<One("lat"), One("long"), One("alt")>>, FALSE),
     polygon |-> Complex("polygon", <<>>, <<Many("point", "points")>>, FALSE),
     property |->
        Complex("property",
                <<"ref", "unit", "datatype", "applies_to", "id_ref">>,
                <<>>, TRUE),
     reference |-> Complex("reference", <<"doi">>, <<One("desc")>>, FALSE),
     sequence |->
        Complex("sequence", <<"type", "id_ref", "id_source">>,
                <<One("symbol"), One("accession"), One("name"),
                  One("location"), One("mol_seq"), One("uri"),
                  Many("annotation", "annotations"),
                  One("domain_architecture"), Many("other", "other")>>,
                FALSE),
     sequence_relation |->
        Complex("sequence_relation",
                <<"id_ref_0", "id_ref_1", "distance", "type">>,
                <<One("confidence")>>, FALSE),
     taxonomy |->
        Complex("taxonomy", <<"id_source">>,
                <<One("id"), One("code"), One("scientific_name"),
                  One("authority"), Many("common_name", "common_names"),
                  Many("synonym", "synonyms"), One("rank"), One("uri"),
                  Many("other", "other")>>,
                FALSE),
     uri |-> Complex("uri", <<"desc", "type">>, <<>>, TRUE)]

\* The methods of Writer made by _handle_simple
SimpleDefs ==
    [tag \in {"alt", "branch_length", "lat", "long", "value", "width",
              "blue", "duplications", "green", "losses", "red",
              "speciations", "bc", "code", "common_name", "desc",
              "description", "location", "mol_seq", "name", "rank",
              "scientific_name", "symbol", "synonym"} |->
        [simple |-> TRUE, tag |-> tag]]

\* The class body of Writer: a later assignment to a name replaces an
\* earlier one, and the _handle_simple assignments come last
WriterDefs == SimpleDefs @@ ComplexDefs

RECURSIVE Emit(_, _)

\* elem.text = serialize(obj.value) when has_text
ValueText(has_text, obj) ==
    IF ~has_text THEN Ok(None)
    ELSE Make(GetAttr(obj, "value"), serialize)

\* The elements one subnode of _handle_complex appends
SubElems(s, obj) ==
    IF ~GetAttr(obj, s.field).ok THEN Raise("AttributeError")
    ELSE IF s.list THEN
        Collect([i \in 1..Len(obj[s.field]) |-> Emit(s.method, obj[s.field][i])])
    ELSE IF obj[s.field] = None THEN Ok(<<>>)
    ELSE Make(Emit(s.method, obj[s.field]), LAMBDA e : <<e>>)

\* _handle_complex walking its subnodes from the last to the first
BackwardComplex(d, obj) ==
    Make(Collect(<<_clean_attrib(obj, d.attribs),
                   Make(Collect([i \in 1..Len(d.subnodes) |->
                                   SubElems(d.subnodes[Len(d.subnodes) + 1 - i],
                                            obj)]), Flat),
                   ValueText(d.has_text, obj)>>),
         LAMBDA a : XElem(Phy(d.tag), a[1], a[3], a[2]))

\* The function _handle_complex returns, applied to obj
_handle_complex(d, obj) ==
    Make(Collect(<<_clean_attrib(obj, d.attribs),
                   Make(Collect([i \in 1..Len(d.subnodes) |->
                                   SubElems(d.subnodes[i], obj)]), Flat),
                   ValueText(d.has_text, obj)>>),
         LAMBDA a : XElem(Phy(d.tag), a[1], a[3], a[2]))

\* The function _handle_simple returns, applied to obj
_handle_simple(tag, obj) == Ok(XElem(Phy(tag), <<>>, serialize(obj), <<>>))

\* Writer.other
WriterOther(obj) ==
    IF ~IsObject(obj) \/ obj.cls # "Other" THEN Raise("AttributeError")
    ELSE Make(Collect([i \in 1..Len(obj.children) |->
                         Emit("other", obj.children[i])]),
              LAMBDA kids : XElem(_ns(obj.tag, obj.namespace), obj.attributes,
                                  obj.value, kids))

\* for token in getattr(obj, subn): subelem.append(self.bc(token))
BcList(subn, tokens) ==
    IF ~tokens.ok THEN tokens
    ELSE IF tokens.v = None THEN Raise("TypeError")
    ELSE Ok(XElem(Phy(subn), <<>>, None,
                  [i \in 1..Len(tokens.v.v) |->
                      _handle_simple("bc", tokens.v.v[i]).v]))

\* Writer.binary_characters
WriterBinaryCharacters(obj) ==
    Make(Collect(<<_clean_attrib(obj, <<"type", "gained_count", "lost_count",
                                       "present_count", "absent_count">>),
                   BcList("gained", GetAttr(obj, "gained")),
                   BcList("lost", GetAttr(obj, "lost")),
                   BcList("present", GetAttr(obj, "present")),
                   BcList("absent", GetAttr(obj, "absent"))>>),
         LAMBDA a : XElem(Phy("binary_characters"), a[1], None,
                          <<a[2], a[3], a[4], a[5]>>))

\* str(obj.start + 1)
PlusOne(r) ==
    IF ~r.ok THEN r
    ELSE IF r.v.k # "int" THEN Raise("TypeError")
    ELSE Ok(S(IntStr(r.v.v + 1)))

\* elem.set(key, value) when the value is not None
SetUnlessNone(attrib, key, value) ==
    IF value = None THEN attrib ELSE (key :> value) @@ attrib

\* Writer.domain
WriterDomain(obj) ==
    Make(Collect(<<PlusOne(GetAttr(obj, "start")),
                   Make(GetAttr(obj, "end"), serialize),
                   Make(GetAttr(obj, "confidence"),
                        LAMBDA c : IF c = None THEN None ELSE serialize(c)),
                   GetAttr(obj, "id"),
                   Make(GetAttr(obj, "value"), serialize)>>),
         LAMBDA a :
            XElem(Phy("domain"),
                  SetUnlessNone(SetUnlessNone([from |-> a[1], to |-> a[2]],
                                              "confidence", a[3]),
                                "id", a[4]),
                  a[5], <<>>))

\* getattr(self, method)(obj)
Emit(method, obj) ==
    CASE method = "other" -> WriterOther(obj)
      [] method = "binary_characters" -> WriterBinaryCharacters(obj)
      [] method = "domain" -> WriterDomain(obj)
      [] method \in DOMAIN WriterDefs ->
            IF WriterDefs[method].simple THEN _handle_simple(method, obj)
            ELSE _handle_complex(WriterDefs[method], obj)
      [] OTHER -> Raise("AttributeError")

\* Writer.phyloxml: the root element carries no attribute
WriterPhyloxml(obj) ==
    Make(Collect(<<Collect([i \in 1..Len(obj.phylogenies) |->
                              Emit("phylogeny", obj.phylogenies[i])]),
                   Collect([i \in 1..Len(obj.other) |->
                              Emit("other", obj.other[i])])>>),
         LAMBDA a : XElem(Phy("phyloxml"), <<>>, None, a[1] \o a[2]))

\* Phylogeny.to_phyloxml(): an aggregate holding only this tree
to_phyloxml(tree) == [PhyloxmlNew(<<>>) EXCEPT !.phylogenies = <<tree>>]

\* Phylogeny.from_tree(tree): the name and rootedness of a BaseTree.Tree
from_tree(tree) ==
    [PhylogenyNew EXCEPT !.name = tree.name, !.rooted = tree.rooted]

\* The conversion at the head of write(): the Phyloxml to serialize, or the
\* usage error. A list is the only value here that has __iter__.
ToPhyloxml(obj) ==
    IF IsObject(obj) /\ obj.cls = "Phyloxml" THEN Ok(obj)
    ELSE IF IsObject(obj) /\ obj.cls = "Phylogeny" THEN Ok(to_phyloxml(obj))
    ELSE IF IsObject(obj) /\ obj.cls = "Tree" THEN
        Ok(to_phyloxml(from_tree(obj)))
    ELSE IF ~IsObject(obj) /\ obj.k = "list" THEN
        Ok([PhyloxmlNew(<<>>) EXCEPT !.phylogenies = obj.v])
    ELSE Raise("ValueError")

\* Writer(obj, encoding): the element tree of the whole aggregate
WriterInit(phyloxml) ==
    IF phyloxml.ok THEN WriterPhyloxml(phyloxml.v) ELSE phyloxml

\* The text an element has when the written file is parsed again
Reparse(text) == IF text = S("") THEN None ELSE text

\* The start and end events iterparse delivers for a written element
RECURSIVE ToEvents(_)
ToEvents(x) ==
    <<[ev |-> "start", tag |-> x.tag, attrib |-> x.attrib,
       text |-> Reparse(x.text)]>>
    \o Flat([i \in 1..Len(x.kids) |-> ToEvents(x.kids[i])])
    \o <<[ev |-> "end"]>>

\* ---------------------------------------------------------------- the document source

\* The vocabulary: the children each phyloXML element may have (the child
\* tables of the Writer) and the elements that may hold foreign content.
ChildNames(name) ==
    CASE name = "phyloxml" -> {"phylogeny"}
      [] name = "phylogeny" ->
            {"name", "id", "description", "date", "confidence", "clade",
             "clade_relation", "sequence_relation", "property"}
      [] name = "clade" ->
            {"name", "branch_length", "confidence", "width", "color",
             "node_id", "taxonomy", "sequence", "events",
             "binary_characters", "distribution", "date", "reference",
             "property", "clade"}
      [] name = "sequence" ->
            {"symbol", "accession", "name", "location", "mol_seq", "uri",
             "annotation", "domain_architecture"}
      [] name = "taxonomy" ->
            {"id", "code", "scientific_name", "authority", "common_name",
             "synonym", "rank", "uri"}
      [] name = "annotation" -> {"desc", "confidence", "property", "uri"}
      [] name = "date" -> {"desc", "value", "minimum", "maximum"}
      [] name = "events" ->
            {"type", "duplications", "speciations", "losses", "confidence"}
      [] name = "color" -> {"red", "green", "blue"}
      [] name \in {"clade_relation", "sequence_relation"} -> {"confidence"}
      [] name = "domain_architecture" -> {"domain"}
      [] name = "binary_characters" -> {"gained", "lost", "present", "absent"}
      [] name \in {"gained", "lost", "present", "absent"} -> {"bc"}
      [] name = "distribution" -> {"desc", "point", "polygon"}
      [] name = "polygon" -> {"point"}
      [] name = "point" -> {"lat", "long", "alt"}
      [] name = "reference" -> {"desc"}
      [] OTHER -> {}

\* The attributes each element may carry
AttrNames(name) ==
    CASE name = "phylogeny" -> {"rooted", "rerootable", "branch_length_unit", "type"}
      [] name = "clade" -> {"branch_length", "id_source"}
      [] name = "sequence" -> {"type", "id_ref", "id_source"}
      [] name = "taxonomy" -> {"id_source"}
      [] name = "mol_seq" -> {"is_aligned"}
      [] name \in {"confidence", "uri"} -> {"type"}
      [] name \in {"id", "node_id"} -> {"provider"}
      [] name = "date" -> {"unit"}
      [] name = "domain" -> {"from", "to", "confidence", "id"}
      [] name = "domain_architecture" -> {"length"}
      [] OTHER -> {}

AttribChoices(tag) ==
    IF tag.ns # PhyNS THEN {<<>>} \cup {("a" :> S(t)) : t \in profile.ftexts}
    ELSE {<<>>} \cup {(a :> S(t)) : a \in AttrNames(tag.name) \cap profile.attrs,
                                   t \in profile.texts}

TextChoices(tag) ==
    IF tag.ns # PhyNS THEN {None} \cup {S(t) : t \in profile.ftexts}
    ELSE IF ChildNames(tag.name) # {} THEN {None}
    ELSE {None} \cup {S(t) : t \in profile.texts}

\* The tags a child of the innermost open element may have
StartTags ==
    LET p == dom[Last(open)].tag
    IN  IF p.ns = PhyNS
        THEN {Phy(n) : n \in ChildNames(p.name) \cap profile.tags}
             \cup (IF p.name \in {"phyloxml", "phylogeny", "clade", "sequence",
                                 "taxonomy"} THEN profile.ftags ELSE {})
        ELSE profile.ftags

\* The events iterparse may deliver next: well nested, within the bounds
NextEvents ==
    IF profile.fixed THEN (IF feed = <<>> THEN {} ELSE {Head(feed)})
    ELSE IF open = <<>> THEN {}
    ELSE {[ev |-> "end"]} \cup
         (IF Len(dom) >= MaxElems \/ Len(open) >= MaxDepth THEN {}
          ELSE UNION {{[ev |-> "start", tag |-> t, attrib |-> a, text |-> x] :
                          a \in AttribChoices(t), x \in TextChoices(t)} :
                      t \in StartTags})

\* The element tree after the tokenizer has seen event e
Build(h, e) ==
    IF e.ev = "end" THEN h
    ELSE LET new == Append(h, Element(e.tag, e.attrib, e.text))
         IN  IF open = <<>> THEN new
             ELSE [new EXCEPT ![Last(open)].kids = Append(@, Len(new))]

\* ---------------------------------------------------------------- actions

\* The list of the caller that receives what a _parse_* method returned
Plural(fn) ==
    CASE fn = "clade" -> "clades"
      [] fn = "taxonomy" -> "taxonomies"
      [] fn = "sequence" -> "sequences"

\* The callee returns its object to the frame below it: read appends it to
\* phylogenies, parse yields it, _parse_phylogeny sets its clade, _parse_clade
\* appends it to the list of its kind.
Resume(callers, callee, at) ==
    LET n == Len(callers)
        c == callers[n]
        value == callee.obj
    IN  /\ returns' = Append(returns, [fn |-> callee.fn, parent |-> callee.parent,
                                       obj |-> value, at |-> at,
                                       stack |-> callee.tag_stack])
        /\ UNCHANGED <<err, result>>
        /\ CASE c.fn = "parse" ->
                  /\ frames' = callers
                  /\ yielded' = Append(yielded, [tree |-> value,
                                                 elem |-> callee.parent])
                  /\ pc' = "yield"
             [] c.fn = "read" ->
                  /\ frames' = [callers EXCEPT
                                  ![n].obj.phylogenies = Append(@, value)]
                  /\ UNCHANGED <<yielded, pc>>
             [] c.fn = "phylogeny" ->
                  /\ frames' = [callers EXCEPT ![n].obj.clade = value]
                  /\ UNCHANGED <<yielded, pc>>
             [] c.fn = "clade" ->
                  /\ frames' = [callers EXCEPT
                                  ![n].obj[Plural(callee.fn)] = Append(@, value)]
                  /\ UNCHANGED <<yielded, pc>>

\* An exception leaves every frame
Fail(kind) ==
    /\ pc' = "failed"
    /\ err' = kind
    /\ frames' = <<>>
    /\ UNCHANGED <<yielded, result, returns>>

\* A call: the callee's frame goes on the stack, unless its first statements
\* raised
Push(out, new) ==
    IF new.ok
    THEN /\ frames' = Append([frames EXCEPT ![Len(frames)] = out.frame], new.v)
         /\ UNCHANGED <<pc, err, yielded, result, returns>>
    ELSE Fail(new.err)

\* The effect of one loop iteration on the parser
Apply(out, at) ==
    /\ heap' = out.heap
    /\ CASE out.kind = "raise" -> Fail(out.err)
         [] out.kind = "cont" ->
              /\ frames' = [frames EXCEPT ![Len(frames)] = out.frame]
              /\ UNCHANGED <<pc, err, yielded, result, returns>>
         [] out.kind = "call" -> Push(out, Enter(out.heap, out.fn, out.elem))
         [] out.kind = "return" -> Resume(Front(frames), out.frame, at)

\* The element an event is about: a start event opens a new one
Target(e) == IF e.ev = "start" THEN Len(heap) + 1 ELSE Last(open)

\* The innermost frame is in the event loop of method fn
Running(fn) ==
    /\ pc = "run"
    /\ frames # <<>>
    /\ Last(frames).fn = fn

\* The loop body of the method fn
Handle(fn, h, f, ev, elem) ==
    CASE fn = "read" -> read(h, f, ev, elem)
      [] fn = "parse" -> parse(h, f, ev, elem)
      [] fn = "phylogeny" -> _parse_phylogeny(h, f, ev, elem)
      [] fn = "clade" -> _parse_clade(h, f, ev, elem)
      [] fn = "sequence" -> _parse_sequence(h, f, ev, elem)
      [] fn = "taxonomy" -> _parse_taxonomy(h, f, ev, elem)

\* The innermost frame, running method fn, fetches the next event from
\* self.context and handles it
Step(fn) ==
    /\ Running(fn)
    /\ \E e \in NextEvents :
          /\ dom' = Build(dom, e)
          /\ open' = IF e.ev = "start" THEN Append(open, Target(e)) ELSE Front(open)
          /\ feed' = IF profile.fixed THEN Tail(feed) ELSE feed
          /\ last' = [ev |-> e.ev, id |-> Target(e)]
          /\ UNCHANGED <<arg, dest, profile>>
          /\ Apply(Handle(fn, Build(heap, e), Last(frames), e.ev, Target(e)),
                   [ev |-> e.ev, id |-> Target(e)])

ReadStep ==
    /\ pc = "run"
    /\ Step("read")

ParseStep ==
    /\ pc = "run"
    /\ Step("parse")

PhylogenyStep ==
    /\ pc = "run"
    /\ Step("phylogeny")

CladeStep ==
    /\ pc = "run"
    /\ Step("clade")

SequenceStep ==
    /\ pc = "run"
    /\ Step("sequence")

TaxonomyStep ==
    /\ pc = "run"
    /\ Step("taxonomy")

\* The cursor is exhausted: the for loop of the innermost frame ends. read
\* returns its Phyloxml, the parse generator finishes, a _parse_* method
\* returns what it has built.
Exhausted ==
    /\ pc = "run"
    /\ frames # <<>>
    /\ NextEvents = {}
    /\ UNCHANGED <<arg, dest, profile, feed, dom, open, last>>
    /\ LET f == Last(frames)
       IN  IF f.fn = "read"
           THEN /\ result' = f.obj
                /\ pc' = "done"
                /\ frames' = <<>>
                /\ UNCHANGED <<heap, err, yielded, returns>>
           ELSE IF f.fn = "parse"
           THEN /\ pc' = "done"
                /\ frames' = <<>>
                /\ UNCHANGED <<heap, err, yielded, result, returns>>
           ELSE /\ heap' = heap
                /\ Resume(Front(frames), f, last)

\* The consumer of the generator asks for the next tree
NextTree ==
    /\ pc = "yield"
    /\ pc' = "run"
    /\ UNCHANGED <<arg, dest, profile, feed, heap, dom, open, last, frames, err,
                   yielded, result, returns>>

\* The consumer abandons the iteration
Abandon ==
    /\ pc = "yield"
    /\ pc' = "abandoned"
    /\ UNCHANGED <<arg, dest, profile, feed, heap, dom, open, last, frames, err,
                   yielded, result, returns>>

\* ---------------------------------------------------------------- write and read back

\* write(arg, file) ended with exception kind after the file was opened and
\* the root's start tag written
WriteBroken(kind) ==
    /\ pc' = "failed"
    /\ err' = kind
    /\ dest' = XElem(Phy("phyloxml"), <<>>, None, <<>>)

\* write(arg, file) ended with exception kind; the destination is as it was
WriteFailed(kind) ==
    /\ pc' = "failed"
    /\ err' = kind
    /\ UNCHANGED dest

\* Writer(obj, encoding).write(file), where the Writer's tree was built as tree
WriterWrite(tree) ==
    IF tree.ok
    THEN /\ dest' = tree.v
         /\ pc' = "written"
         /\ UNCHANGED err
    ELSE WriteFailed(tree.err)

\* The call write(arg, file)
Write ==
    /\ pc = "write"
    /\ WriterWrite(WriterInit(ToPhyloxml(arg)))
    /\ UNCHANGED <<arg, profile, feed, heap, dom, open, last, frames, yielded,
                   result, returns>>

\* read(file) on the file just written: Parser(file) consumes the start event
\* of the root, and Parser.read() begins
ReadBack ==
    /\ pc = "written"
    /\ pc' = "run"
    /\ heap' = <<Element(dest.tag, dest.attrib, Reparse(dest.text))>>
    /\ dom' = heap'
    /\ open' = <<1>>
    /\ last' = [ev |-> "start", id |-> 1]
    /\ feed' = Tail(ToEvents(dest))
    /\ frames' = <<ReadFrame(dest.attrib, 1)>>
    /\ UNCHANGED <<arg, dest, profile, err, yielded, result, returns>>

\* ---------------------------------------------------------------- specifications

\* Parser(file): the root's start event has been consumed; read() or parse()
\* is then called on the new parser.
Start(p, rootAttribs, modes) ==
    /\ arg = None
    /\ dest = None
    /\ profile \in {[p EXCEPT !.mode = m] : m \in modes}
    /\ feed = <<>>
    /\ \E a \in rootAttribs :
          /\ heap = <<Element(Phy("phyloxml"), a, None)>>
          /\ frames = <<IF profile.mode = "read" THEN ReadFrame(a, 1)
                                                ELSE ParseFrame(1)>>
    /\ dom = heap
    /\ open = <<1>>
    /\ last = [ev |-> "start", id |-> 1]
    /\ pc = "run"
    /\ err = ""
    /\ yielded = <<>>
    /\ result = None
    /\ returns = <<>>

\* Documents of phylogenies, clades and dates with foreign content at any level
TopProfile ==
    [fixed |-> FALSE, mode |-> "read",
     tags |-> {"phylogeny", "clade", "date", "desc", "name"},
     ftags |-> {_ns("foo", XNS), _ns("phylogeny", XNS)},
     attrs |-> {},
     texts |-> {"abc"},
     ftexts |-> {}]

Init ==
    Start(TopProfile, {(_ns("schemaLocation", XsiNS) :> S("loc"))},
          {"read", "parse"})

Next ==
    \/ ReadStep
    \/ ParseStep
    \/ PhylogenyStep
    \/ CladeStep
    \/ Exhausted
    \/ NextTree
    \/ Abandon

Spec == Init /\ [][Next]_vars

\* Documents of clades with sequences, taxonomies, branch lengths and
\* foreign content, read as a whole
CladeProfile ==
    [fixed |-> FALSE, mode |-> "read",
     tags |-> {"phylogeny", "clade", "branch_length", "sequence", "taxonomy"},
     ftags |-> {_ns("foo", XNS)},
     attrs |-> {"branch_length"},
     texts |-> {"0", "1.5", "abc"},
     ftexts |-> {}]

InitClade == Start(CladeProfile, {<<>>}, {"read"})

NextClade ==
    \/ ReadStep
    \/ PhylogenyStep
    \/ CladeStep
    \/ SequenceStep
    \/ TaxonomyStep
    \/ Exhausted

SpecClade == InitClade /\ [][NextClade]_vars

\* Documents of phylogenies and clades with confidences of their own and
\* confidences inside events, clade relations and sequence relations
NestedProfile ==
    [fixed |-> FALSE, mode |-> "read",
     tags |-> {"phylogeny", "clade", "events", "confidence", "clade_relation",
               "sequence_relation"},
     ftags |-> {},
     attrs |-> {},
     texts |-> {"1.5"},
     ftexts |-> {}]

InitNested == Start(NestedProfile, {<<>>}, {"read"})

NextNested ==
    \/ ReadStep
    \/ PhylogenyStep
    \/ CladeStep
    \/ Exhausted

SpecNested == InitNested /\ [][NextNested]_vars

\* Documents of nested clades with names, events, confidences, sequences and
\* taxonomies, and foreign elements named like a tracked tag
StackProfile ==
    [fixed |-> FALSE, mode |-> "read",
     tags |-> {"phylogeny", "clade", "events", "confidence", "name",
               "sequence", "taxonomy"},
     ftags |-> {_ns("name", XNS)},
     attrs |-> {},
     texts |-> {"1.5"},
     ftexts |-> {}]

InitStack == Start(StackProfile, {<<>>}, {"read"})

NextStack ==
    \/ ReadStep
    \/ PhylogenyStep
    \/ CladeStep
    \/ SequenceStep
    \/ TaxonomyStep
    \/ Exhausted

SpecStack == InitStack /\ [][NextStack]_vars

\* Documents of phylogenies and clades with elements written without any
\* namespace next to elements of a foreign namespace
BareProfile ==
    [fixed |-> FALSE, mode |-> "read",
     tags |-> {"phylogeny", "clade", "name"},
     ftags |-> {_ns("bare", NoNS), _ns("foo", XNS)},
     attrs |-> {},
     texts |-> {"abc"},
     ftexts |-> {}]

InitBare == Start(BareProfile, {<<>>}, {"read"})

NextBare ==
    \/ ReadStep
    \/ PhylogenyStep
    \/ CladeStep
    \/ Exhausted

SpecBare == InitBare /\ [][NextBare]_vars

\* The clades of the aggregates handed to write(): branch lengths, node ids
\* as text and as Id objects, colours, sequences and taxonomies
CladeChoices ==
    {[CladeNew EXCEPT !.branch_length = bl, !.node_id = nid, !.color = col,
                      !.sequences = seqs, !.taxonomies = taxs] :
        bl \in {None, F("0.0"), F("1.5")},
        nid \in {None, S("n1"), [cls |-> "Id", value |-> S("n1"),
                                 provider |-> None]},
        col \in {None, [cls |-> "BranchColor", red |-> I(0), green |-> I(2),
                        blue |-> I(7)]},
        seqs \in {<<>>,
                  <<[SequenceNew EXCEPT !.name = S("s")]>>,
                  <<[SequenceNew EXCEPT !.mol_seq =
                        [cls |-> "MolSeq", value |-> S("ACGT"),
                         is_aligned |-> B(TRUE)]]>>},
        taxs \in {<<>>, <<[TaxonomyNew EXCEPT !.code = S("ECOLI")]>>}}

\* Aggregates of recognized vocabulary only
Aggregates ==
    {[PhyloxmlNew(a) EXCEPT !.phylogenies =
         <<[PhylogenyNew EXCEPT !.name = S("t"), !.rooted = B(TRUE),
                                !.clade = c]>>] :
        a \in {<<>>, ("schemaLocation" :> S("loc"))}, c \in CladeChoices}
    \cup {PhyloxmlNew(<<>>),
          [PhyloxmlNew(<<>>) EXCEPT !.phylogenies =
              <<[PhylogenyNew EXCEPT !.name = S("t")],
                [PhylogenyNew EXCEPT !.name = S("u")]>>]}

List(items) == [k |-> "list", v |-> items]

\* The other values handed to write(): single trees, iterables of trees,
\* iterables of other things, and values that are none of these
OtherArgs ==
    {[PhylogenyNew EXCEPT !.name = S("t")],
     [cls |-> "Tree", name |-> S("t"), rooted |-> B(FALSE)],
     List(<<>>),
     List(<<[PhylogenyNew EXCEPT !.name = S("t")],
            [PhylogenyNew EXCEPT !.name = S("u")]>>),
     List(<<I(2), I(7)>>),
     List(<<S("t")>>),
     List(<<None>>),
     I(7), F("1.5"), S("t"), None, B(TRUE)}

WriteProfile ==
    [fixed |-> TRUE, mode |-> "read", tags |-> {}, ftags |-> {},
     attrs |-> {}, texts |-> {}, ftexts |-> {}]

\* write(arg, file) is about to be called on one of the values
InitWrite ==
    /\ arg \in Aggregates \cup OtherArgs
    /\ dest = None
    /\ profile = WriteProfile
    /\ feed = <<>>
    /\ heap = <<>>
    /\ dom = <<>>
    /\ open = <<>>
    /\ last = [ev |-> "start", id |-> 0]
    /\ frames = <<>>
    /\ pc = "write"
    /\ err = ""
    /\ yielded = <<>>
    /\ result = None
    /\ returns = <<>>

NextWrite ==
    \/ Write
    \/ ReadBack
    \/ ReadStep
    \/ PhylogenyStep
    \/ CladeStep
    \/ SequenceStep
    \/ TaxonomyStep
    \/ Exhausted

SpecWrite == InitWrite /\ [][NextWrite]_vars

\* Phylogenies with every combination of their fields set or left out, for
\* the order in which Writer.phylogeny emits them
Conf(v) == [cls |-> "Confidence", value |-> F(v), type |-> S("bootstrap")]

Relation(cls, conf) ==
    [cls |-> cls, type |-> S("other"), id_ref_0 |-> S("a"), id_ref_1 |-> S("b"),
     distance |-> None, confidence |-> conf]

Foreign(tag) ==
    [cls |-> "Other", tag |-> tag, namespace |-> XNS, attributes |-> <<>>,
     value |-> None, children |-> <<>>]

EmitPhylogenies ==
    {[PhylogenyNew EXCEPT !.name = n, !.id = i, !.description = d, !.date = dt,
                          !.confidences = cs, !.clade = c,
                          !.clade_relations = crs, !.sequence_relations = srs,
                          !.properties = ps, !.other = os] :
        n \in {None, S("t")},
        i \in {None, [cls |-> "Id", value |-> S("x1"), provider |-> None]},
        d \in {None, S("d")},
        dt \in {None, [cls |-> "Date", unit |-> None, desc |-> None,
                       value |-> F("1.5"), minimum |-> None,
                       maximum |-> None]},
        cs \in {<<>>, <<Conf("1.5")>>, <<Conf("1.5"), Conf("2.0")>>,
                <<Conf("2.0"), Conf("1.5")>>},
        c \in {None, CladeNew},
        crs \in {<<>>, <<Relation("CladeRelation", None)>>},
        srs \in {<<>>, <<Relation("SequenceRelation", None)>>},
        ps \in {<<>>, <<[cls |-> "Property", value |-> S("1"),
                         ref |-> S("r"), unit |-> None,
                         datatype |-> S("xsd:int"),
                         applies_to |-> S("clade"), id_ref |-> None]>>},
        os \in {<<>>, <<Foreign("foo")>>}}

\* A tree whose clade holds one sequence with that domain architecture
WithArchitecture(da) ==
    [PhylogenyNew EXCEPT !.clade =
        [CladeNew EXCEPT !.sequences =
            <<[SequenceNew EXCEPT !.domain_architecture = da]>>]]

ProteinDomain(start, end) ==
    [cls |-> "ProteinDomain", value |-> S("dom"), start |-> start,
     end |-> end, confidence |-> None, id |-> None]

\* Trees with a protein domain at every pair of zero-based coordinates
DomainArgs ==
    {to_phyloxml(WithArchitecture(
         [cls |-> "DomainArchitecture", length |-> I(9),
          domains |-> <<ProteinDomain(I(start), I(end))>>])) :
        start \in 0..MaxCoord, end \in 0..MaxCoord}

DateOf(value, minimum, maximum) ==
    [cls |-> "Date", unit |-> S("mya"), desc |-> None, value |-> value,
     minimum |-> minimum, maximum |-> maximum]

EventsOf(type, duplications) ==
    [cls |-> "Events", type |-> type, duplications |-> duplications,
     speciations |-> None, losses |-> None, confidence |-> None]

\* Clades with their singular fields set or left out and their lists empty
\* or not, among them dates with a range and events with a type
EmitClades ==
    {[CladeNew EXCEPT !.name = n, !.branch_length = bl, !.confidences = cs,
                      !.taxonomies = taxs, !.events = ev, !.date = dt,
                      !.clades = sub] :
        n \in {None, S("c")},
        bl \in {None, F("1.5")},
        cs \in {<<>>, <<Conf("1.5")>>, <<Conf("1.5"), Conf("2.0")>>},
        taxs \in {<<>>, <<[TaxonomyNew EXCEPT !.code = S("ECOLI")]>>},
        ev \in {None, EventsOf(None, I(2)), EventsOf(S("speciation"), None)},
        dt \in {None, DateOf(F("1.5"), None, None),
                DateOf(F("1.5"), F("0.5"), F("2.0"))},
        sub \in {<<>>, <<CladeNew>>,
                 <<CladeNew, [CladeNew EXCEPT !.name = S("leaf")]>>}}

\* Trees that hold only such a clade
CladeArgs ==
    {to_phyloxml([PhylogenyNew EXCEPT !.clade = c]) : c \in EmitClades}

\* The values handed to write() for what the Writer emits
EmitArgs ==
    {to_phyloxml(tree) : tree \in EmitPhylogenies} \cup DomainArgs
    \cup CladeArgs

\* write(arg, file) is about to be called on one of the values of args
WriteOf(args) ==
    /\ arg \in args
    /\ dest = None
    /\ profile = WriteProfile
    /\ feed = <<>>
    /\ heap = <<>>
    /\ dom = <<>>
    /\ open = <<>>
    /\ last = [ev |-> "start", id |-> 0]
    /\ frames = <<>>
    /\ pc = "write"
    /\ err = ""
    /\ yielded = <<>>
    /\ result = None
    /\ returns = <<>>

InitEmit == WriteOf(EmitArgs)

NextEmit ==
    \/ Write
    \/ ReadBack
    \/ ReadStep
    \/ PhylogenyStep
    \/ CladeStep
    \/ SequenceStep
    \/ TaxonomyStep
    \/ Exhausted

SpecEmit == InitEmit /\ [][NextEmit]_vars

\* The module-level functions called on their own: each call is a record of
\* the function's name and its arguments
Tokens == {"true", "false", "True", "False", "TRUE", "1", "0", ""}

\* Attribute mappings of a phylogeny element: rooted, rerootable and type,
\* each present or not
Attribs ==
    UNION {[keys -> {S("true"), S("false"), S("True"), S("0")}] :
              keys \in SUBSET {"rooted", "rerootable", "type"}}

Scalars ==
    {B(TRUE), B(FALSE), I(0), I(7), F("0.0"), F("1.5"), S(""), S("abc"), None}

\* Objects with the attribute fields of a phylogeny, each absent or set
Holders ==
    {[cls |-> "Phylogeny", rooted |-> r, rerootable |-> rr,
      branch_length_unit |-> u, type |-> t] :
        r \in {None, B(TRUE), B(FALSE)}, rr \in {None, B(FALSE)},
        u \in {None, S(""), I(0), F("0.0")}, t \in {None, S("gene_tree")}}

Calls ==
    {[fn |-> "str2bool", x |-> S(t)] : t \in Tokens}
    \cup {[fn |-> "dict_str2bool", x |-> d, keys |-> {"rooted", "rerootable"}] :
             d \in Attribs}
    \cup {[fn |-> "serialize", x |-> v] : v \in Scalars}
    \cup {[fn |-> "_clean_attrib", x |-> obj,
           attrs |-> <<"rooted", "rerootable", "branch_length_unit", "type">>] :
             obj \in Holders}

InitCall ==
    /\ arg \in Calls
    /\ dest = None
    /\ profile = WriteProfile
    /\ feed = <<>>
    /\ heap = <<>>
    /\ dom = <<>>
    /\ open = <<>>
    /\ last = [ev |-> "start", id |-> 0]
    /\ frames = <<>>
    /\ pc = "call"
    /\ err = ""
    /\ yielded = <<>>
    /\ result = None
    /\ returns = <<>>

\* The call returns or raises; the outcome is kept in result
Returned(outcome) ==
    /\ pc' = "returned"
    /\ result' = outcome
    /\ UNCHANGED <<dest, profile, feed, heap, dom, open, last, frames, err,
                   yielded, returns>>

CallStr2bool ==
    /\ pc = "call"
    /\ arg.fn = "str2bool"
    /\ Returned(str2bool(arg.x))
    /\ UNCHANGED arg

\* out = dct.copy(): the assignments of the loop go to the copy, the mapping
\* passed in stays as it was
CallDictStr2bool ==
    /\ pc = "call"
    /\ arg.fn = "dict_str2bool"
    /\ Returned(dict_str2bool(arg.x, arg.keys))
    /\ UNCHANGED arg

CallSerialize ==
    /\ pc = "call"
    /\ arg.fn = "serialize"
    /\ Returned(Ok(serialize(arg.x)))
    /\ UNCHANGED arg

CallCleanAttrib ==
    /\ pc = "call"
    /\ arg.fn = "_clean_attrib"
    /\ Returned(_clean_attrib(arg.x, arg.attrs))
    /\ UNCHANGED arg

NextCall ==
    \/ CallStr2bool
    \/ CallDictStr2bool
    \/ CallSerialize
    \/ CallCleanAttrib

SpecCall == InitCall /\ [][NextCall]_vars

\* Files whose integer-valued attributes are absent, integers or other text:
\* a clade with binary_characters and a sequence with one domain
IntDocument(length, from, to, count) ==
    XElem(Phy("phyloxml"), <<>>, None,
      <<XElem(Phy("phylogeny"), <<>>, None,
          <<XElem(Phy("clade"), <<>>, None,
              <<XElem(Phy("sequence"), <<>>, None,
                  <<XElem(Phy("domain_architecture"),
                          SetUnlessNone(<<>>, "length", length), None,
                          <<XElem(Phy("domain"),
                                  SetUnlessNone(SetUnlessNone(<<>>, "from", from),
                                                "to", to),
                                  S("dom"), <<>>)>>)>>),
                XElem(Phy("binary_characters"),
                      SetUnlessNone(<<>>, "gained_count", count), None,
                      <<>>)>>)>>)>>)

AttrTexts == {None, S("7"), S("0"), S("abc")}

IntDocs ==
    {IntDocument(length, from, to, count) :
        length \in AttrTexts, from \in AttrTexts, to \in AttrTexts,
        count \in AttrTexts}

\* A child element holding only text, when there is a text
Leaf(tag, text) ==
    IF text = None THEN <<>> ELSE <<XElem(Phy(tag), <<>>, text, <<>>)>>

\* Files whose numbers are absent, numbers or other text: a clade with a
\* branch length (as attribute or as child), a color, a point and a date
FloatDocument(attr, child, red, lat, value) ==
    XElem(Phy("phyloxml"), <<>>, None,
      <<XElem(Phy("phylogeny"), <<>>, None,
          <<XElem(Phy("clade"), SetUnlessNone(<<>>, "branch_length", attr),
                  None,
                  Leaf("branch_length", child)
                  \o <<XElem(Phy("color"), <<>>, None, Leaf("red", red)),
                       XElem(Phy("distribution"), <<>>, None,
                             <<XElem(Phy("point"), <<>>, None,
                                     Leaf("lat", lat))>>),
                       XElem(Phy("date"), <<>>, None,
                             Leaf("value", value))>>)>>)>>)

FloatDocs ==
    {FloatDocument(attr, child, red, lat, value) :
        attr \in {None, S("1.5"), S("abc")},
        child \in {None, S("1.5"), S("abc")},
        red \in {None, S("7"), S("abc")},
        lat \in {None, S("1.5"), S("abc")},
        value \in {None, S("1.5"), S("abc")}}

\* A file whose clade holds one sequence with those children
SequenceDocument(kids) ==
    XElem(Phy("phyloxml"), <<>>, None,
      <<XElem(Phy("phylogeny"), <<>>, None,
          <<XElem(Phy("clade"), <<>>, None,
              <<XElem(Phy("sequence"), <<>>, None, kids)>>)>>)>>)

\* The children of those sequences: a uri of the sequence itself, and
\* annotations with and without a uri of their own
SequenceKids ==
    {XElem(Phy("uri"), <<>>, S("http://a"), <<>>),
     XElem(Phy("annotation"), <<>>, None, <<>>),
     XElem(Phy("annotation"), <<>>, None, Leaf("uri", S("http://b")))}

\* Files of sequences with at most one uri of their own
UriDocs ==
    {SequenceDocument(kids) :
        kids \in {ks \in UNION {[1..n -> SequenceKids] : n \in 0..MaxKids} :
                     Cardinality({i \in 1..Len(ks) :
                                     ks[i].tag = Phy("uri")}) <= 1}}

\* Files whose numbers are absent, zero or not zero: a clade with a color,
\* events, a point and a date
ZeroDocument(red, duplications, lat, value) ==
    XElem(Phy("phyloxml"), <<>>, None,
      <<XElem(Phy("phylogeny"), <<>>, None,
          <<XElem(Phy("clade"), <<>>, None,
              <<XElem(Phy("color"), <<>>, None, Leaf("red", red)),
                XElem(Phy("events"), <<>>, None,
                      Leaf("duplications", duplications)),
                XElem(Phy("distribution"), <<>>, None,
                      <<XElem(Phy("point"), <<>>, None, Leaf("lat", lat))>>),
                XElem(Phy("date"), <<>>, None, Leaf("value", value))>>)>>)>>)

ZeroDocs ==
    {ZeroDocument(red, duplications, lat, value) :
        red \in {None, S("0"), S("7")},
        duplications \in {None, S("0"), S("2")},
        lat \in {None, S("0.0"), S("0"), S("1.5")},
        value \in {None, S("0.0"), S("1.5")}}

\* A file is about to be read with read()
FileOf(docs) ==
    /\ arg = None
    /\ dest \in docs
    /\ profile = WriteProfile
    /\ feed = <<>>
    /\ heap = <<>>
    /\ dom = <<>>
    /\ open = <<>>
    /\ last = [ev |-> "start", id |-> 0]
    /\ frames = <<>>
    /\ pc = "written"
    /\ err = ""
    /\ yielded = <<>>
    /\ result = None
    /\ returns = <<>>

InitInt == FileOf(IntDocs)

NextInt ==
    \/ ReadBack
    \/ ReadStep
    \/ PhylogenyStep
    \/ CladeStep
    \/ SequenceStep
    \/ Exhausted

SpecInt == InitInt /\ [][NextInt]_vars

InitFloat == FileOf(FloatDocs)

NextFloat ==
    \/ ReadBack
    \/ ReadStep
    \/ PhylogenyStep
    \/ CladeStep
    \/ Exhausted

SpecFloat == InitFloat /\ [][NextFloat]_vars

InitUri == FileOf(UriDocs)

NextUri ==
    \/ ReadBack
    \/ ReadStep
    \/ PhylogenyStep
    \/ CladeStep
    \/ SequenceStep
    \/ Exhausted

SpecUri == InitUri /\ [][NextUri]_vars

InitZero == FileOf(ZeroDocs)

NextZero ==
    \/ ReadBack
    \/ ReadStep
    \/ PhylogenyStep
    \/ CladeStep
    \/ Exhausted

SpecZero == InitZero /\ [][NextZero]_vars

\* ---------------------------------------------------------------- the document, as a reference

\* The element that holds e in the document
ParentOf(e) ==
    CHOOSE p \in 1..Len(dom) : \E i \in 1..Len(dom[p].kids) : dom[p].kids[i] = e

IsForeign(e) == dom[e].tag.ns # PhyNS

\* The direct children of p, in document order, that satisfy test
KidsOf(p, test(_)) == SelectSeq(dom[p].kids, test)

IsPhylogeny(e) == dom[e].tag = Phy("phylogeny")
IsClade(e) == dom[e].tag = Phy("clade")
IsBranchLength(e) == dom[e].tag = Phy("branch_length")

\* The Foreign Node that stands for the foreign element e with its subtree
ForeignNode(e) == other(dom, e, split_namespace(dom[e].tag)).v

\* One Foreign Node per foreign direct child of p, in document order
ForeignNodes(p) ==
    [i \in 1..Len(KidsOf(p, IsForeign)) |-> ForeignNode(KidsOf(p, IsForeign)[i])]

\* An element after clear(): nothing of its subtree is left
Shell(e) ==
    heap[e].kids = <<>> /\ heap[e].attrib = <<>> /\ heap[e].text = None

OpenIds == {open[i] : i \in 1..Len(open)}

\* ---------------------------------------------------------------- properties

\* C1: for every aggregate A of recognized vocabulary only, write(A) succeeds
\* and reading the written file back gives an aggregate equal to A, its
\* top-level attributes, mol_seq is_aligned flags, node ids and zero-valued
\* numbers included.
C1_RoundTrip ==
    (arg \in Aggregates /\ pc \in {"done", "failed"})
        => (pc = "done" /\ result = arg)

\* C2: when a phylogeny, sequence or taxonomy has returned at its own end
\* event, its 'other' list holds exactly one Foreign Node per foreign direct
\* child, in document order; foreign descendants are only nested inside.
C2_ForeignOnce ==
    \A i \in 1..Len(returns) :
        (/\ returns[i].fn \in {"phylogeny", "sequence", "taxonomy"}
         /\ returns[i].at = [ev |-> "end", id |-> returns[i].parent])
            => returns[i].obj.other = ForeignNodes(returns[i].parent)

\* C3: the end event of a foreign element that is a direct child of a clade
\* leaves the parse running in that clade's frame, with the element's
\* Foreign Node appended last to the clade's 'other' list.
C3_ForeignInClade ==
    (/\ last.ev = "end"
     /\ last.id > 1
     /\ IsForeign(last.id)
     /\ IsClade(ParentOf(last.id)))
        => /\ pc = "run"
           /\ Last(frames).fn = "clade"
           /\ Last(frames).parent = ParentOf(last.id)
           /\ Last(frames).obj.other # <<>>
           /\ Last(Last(frames).obj.other) = ForeignNode(last.id)

\* The start event of a second clade directly inside one phylogeny element
\* has just been fetched
SecondClade ==
    /\ last.ev = "start"
    /\ last.id > 1
    /\ IsClade(last.id)
    /\ IsPhylogeny(ParentOf(last.id))
    /\ Len(KidsOf(ParentOf(last.id), IsClade)) = 2

\* C4: a second clade directly inside one phylogeny ends the run with
\* PhyloXMLError and with no other kind of failure.
C4_TwoClades == SecondClade => (pc = "failed" /\ err = "PhyloXMLError")

\* The end event of a branch_length child of a clade has just been fetched
BranchLengthChild ==
    /\ last.ev = "end"
    /\ last.id > 1
    /\ dom[last.id].tag = Phy("branch_length")
    /\ IsClade(ParentOf(last.id))

\* The start event of a clade that carries a branch_length attribute has just
\* been fetched, and the clade is not a second clade of a phylogeny
BranchLengthAttr ==
    /\ last.ev = "start"
    /\ last.id > 1
    /\ IsClade(last.id)
    /\ "branch_length" \in DOMAIN dom[last.id].attrib
    /\ ~SecondClade

\* C5: a branch_length child of a clade that carries the attribute ends the
\* run with PhyloXMLError; with only the child the clade takes the child's
\* float value (one child, no attribute), with only the attribute (so far) it
\* takes the attribute's, and no error is raised.
C5_Collision ==
    /\ (BranchLengthChild
            /\ "branch_length" \in DOMAIN dom[ParentOf(last.id)].attrib)
         => (pc = "failed" /\ err = "PhyloXMLError")
    /\ (BranchLengthChild
            /\ "branch_length" \notin DOMAIN dom[ParentOf(last.id)].attrib
            /\ Len(KidsOf(ParentOf(last.id), IsBranchLength)) = 1)
         => /\ pc = "run"
            /\ Last(frames).obj.branch_length = _float(dom[last.id].text)
    /\ BranchLengthAttr
         => /\ pc = "run"
            /\ Last(frames).obj.branch_length
                   = _float(dom[last.id].attrib["branch_length"])

\* No phylogeny of the document holds more than one clade
Conforms ==
    \A p \in 1..Len(dom) : IsPhylogeny(p) => Len(KidsOf(p, IsClade)) <= 1

\* C6: a parse() run over a document ends normally, having yielded exactly
\* one tree per phylogeny child of the root, in document order.
C6_OnePerPhylogeny ==
    (profile.mode = "parse" /\ pc \in {"done", "failed"} /\ Conforms)
        => /\ pc = "done"
           /\ [i \in 1..Len(yielded) |-> yielded[i].elem]
                  = KidsOf(1, IsPhylogeny)

\* C7: whenever the generator is suspended at a yield, the last event fetched
\* from the cursor is the end event of the phylogeny element the yielded
\* tree was started on.
C7_Incremental ==
    pc = "yield" => last = [ev |-> "end", id |-> Last(yielded).elem]

\* C8: during a parse() run every phylogeny and clade whose end event has
\* been consumed is an emptied shell, and so is every child of the root other
\* than the open one and the one just finalized.
C8_Bounded ==
    (profile.mode = "parse" /\ pc \in {"run", "yield"})
        => /\ \A e \in 1..Len(dom) :
                  ((IsPhylogeny(e) \/ IsClade(e)) /\ e \notin OpenIds)
                      => Shell(e)
           /\ \A i \in 1..Len(heap[1].kids) :
                  \/ heap[1].kids[i] \in OpenIds
                  \/ heap[1].kids[i] = last.id
                  \/ Shell(heap[1].kids[i])

\* C9: in read(), other_depth is never negative and is 0 exactly when the
\* cursor is at root level; the aggregate returned holds one tree per
\* phylogeny child of the root and one Foreign Node per foreign child of the
\* root, in document order.
C9_ReadAggregate ==
    (profile.mode = "read" /\ ~profile.fixed)
        => /\ pc = "run" => frames[1].other_depth >= 0
           /\ (pc = "run" /\ Len(frames) = 1)
                 => (frames[1].other_depth = 0 <=> Len(open) <= 1)
           /\ pc = "done"
                 => /\ Len(result.phylogenies) = Len(KidsOf(1, IsPhylogeny))
                    /\ result.other = ForeignNodes(1)

\* write() takes a Phyloxml, a Phylogeny, a BaseTree.Tree or an iterable of
\* the latter two
IsTree(x) == IsObject(x) /\ x.cls \in {"Phylogeny", "Tree"}

Acceptable(x) ==
    IF IsObject(x) THEN x.cls \in {"Phyloxml", "Phylogeny", "Tree"}
    ELSE x.k = "list" /\ \A i \in 1..Len(x.v) : IsTree(x.v[i])

\* C10: write() of any other value fails with ValueError and leaves the
\* destination unwritten.
C10_UsageError ==
    (pc # "write" /\ ~Acceptable(arg))
        => (pc = "failed" /\ err = "ValueError" /\ dest = None)

\* The element a singular field is written as, when it is set
Opt(value, tag) == IF value = None THEN <<>> ELSE <<Phy(tag)>>

\* One element of that tag per item of a list
Each(items, tag) == [i \in 1..Len(items) |-> Phy(tag)]

\* The tags of the children of a written element, in order
Tags(x) == [i \in 1..Len(x.kids) |-> x.kids[i].tag]

\* The texts of the children of a written element that have that tag
TextsOf(x, tag) ==
    [i \in 1..Len(SelectSeq(x.kids, LAMBDA kid : kid.tag = tag)) |->
        SelectSeq(x.kids, LAMBDA kid : kid.tag = tag)[i].text]

\* The order the phyloXML schema gives the children of a phylogeny
PhylogenyOrder(tree) ==
    Opt(tree.name, "name") \o Opt(tree.id, "id")
    \o Opt(tree.description, "description") \o Opt(tree.date, "date")
    \o Each(tree.confidences, "confidence") \o Opt(tree.clade, "clade")
    \o Each(tree.clade_relations, "clade_relation")
    \o Each(tree.sequence_relations, "sequence_relation")
    \o Each(tree.properties, "property")
    \o [i \in 1..Len(tree.other) |->
          _ns(tree.other[i].tag, tree.other[i].namespace)]

\* C11: the children of an emitted phylogeny element are, in this order, its
\* name, id, description, date, one confidence per entry in list order, the
\* clade, the clade_relations, the sequence_relations, the properties and the
\* foreign nodes.
C11_PhylogenyOrder ==
    (pc = "written" /\ arg.phylogenies[1] \in EmitPhylogenies)
        => /\ Tags(dest.kids[1]) = PhylogenyOrder(arg.phylogenies[1])
           /\ TextsOf(dest.kids[1], Phy("confidence"))
                  = [i \in 1..Len(arg.phylogenies[1].confidences) |->
                        serialize(arg.phylogenies[1].confidences[i].value)]

\* A tree with a name, two different confidences and a clade was written as
\* name, confidence 1, confidence 2, clade
C11_Witness ==
    /\ pc = "written"
    /\ arg.phylogenies[1].confidences = <<Conf("2.0"), Conf("1.5")>>
    /\ Tags(dest.kids[1])
           = <<Phy("name"), Phy("confidence"), Phy("confidence"), Phy("clade")>>
    /\ TextsOf(dest.kids[1], Phy("confidence")) = <<S("2.0"), S("1.5")>>

\* The protein domains of the first sequence of the clade of the first tree
DomainsOf(x) ==
    x.phylogenies[1].clade.sequences[1].domain_architecture.domains

\* The domain elements written for them
DomainElems(x) == x.kids[1].kids[1].kids[1].kids[1].kids

\* C12: a protein domain stored with zero-based start and end is written with
\* from = start + 1 and to = end, and reading the written file restores the
\* same start and end.
C12_Offset ==
    arg \in DomainArgs
        => /\ pc = "written"
                => /\ DomainElems(dest)[1].attrib["from"]
                          = S(IntStr(DomainsOf(arg)[1].start.v + 1))
                   /\ DomainElems(dest)[1].attrib["to"]
                          = S(IntStr(DomainsOf(arg)[1].end.v))
           /\ pc # "failed"
           /\ pc = "done"
                => /\ DomainsOf(result)[1].start = DomainsOf(arg)[1].start
                   /\ DomainsOf(result)[1].end = DomainsOf(arg)[1].end

\* The domain from 2 to 3 was written as from="3" to="3" and read back
C12_Witness ==
    /\ pc = "done"
    /\ arg \in DomainArgs
    /\ DomainsOf(arg)[1].start = I(2)
    /\ DomainElems(dest)[1].attrib["from"] = S("3")
    /\ DomainElems(dest)[1].attrib["to"] = S("3")
    /\ DomainsOf(result)[1].start = I(2)
    /\ DomainsOf(result)[1].end = I(3)

\* The call of that function has returned or raised
Called(fn) == pc = "returned" /\ arg.fn = fn

\* What C13 expects of one call of str2bool or dict_str2bool
BoolCall ==
    /\ (pc = "call" /\ arg.fn = "str2bool")
         => result' = (IF arg.x = S("true") THEN Ok(B(TRUE))
                       ELSE IF arg.x = S("false") THEN Ok(B(FALSE))
                       ELSE Raise("ValueError"))
    /\ (pc = "call" /\ arg.fn = "dict_str2bool")
         => /\ arg' = arg
            /\ result'.ok
                 = (\A key \in arg.keys \cap DOMAIN arg.x :
                       arg.x[key] \in {S("true"), S("false")})
            /\ result'.ok
                 => /\ DOMAIN result'.v = DOMAIN arg.x
                    /\ \A key \in DOMAIN arg.x :
                          result'.v[key]
                             = (IF key \in arg.keys
                                THEN B(arg.x[key] = S("true"))
                                ELSE arg.x[key])

\* C13: str2bool gives true for 'true', false for 'false' and fails for every
\* other token; dict_str2bool fails when a listed key that is present holds
\* another token, and otherwise returns a mapping of the same keys in which
\* the listed keys hold the booleans and every other key its old value; the
\* mapping passed in is left as it was.
C13_Str2bool == [][BoolCall]_vars

\* rooted="true" rerootable="false" type="true" gave rooted and rerootable as
\* booleans and type as the text it was, in a new mapping
C13_Witness ==
    /\ Called("dict_str2bool")
    /\ arg.x = [rooted |-> S("true"), rerootable |-> S("false"),
                type |-> S("true")]
    /\ result = Ok([rooted |-> B(TRUE), rerootable |-> B(FALSE),
                    type |-> S("true")])
\* The listed fields of an object that are not absent
Present(obj, attrs) ==
    {attrs[i] : i \in {j \in 1..Len(attrs) : obj[attrs[j]] # None}}

\* C16: serialize renders a boolean as 'true' or 'false', which str2bool maps
\* back to the same boolean; _clean_attrib returns one attribute for each
\* listed field that is not absent and none for an absent one, a false
\* boolean as 'false' and a zero as '0' or '0.0'.
C16_Scalars ==
    /\ (Called("serialize") /\ arg.x.k = "bool")
         => /\ result.v = (IF arg.x.v THEN S("true") ELSE S("false"))
            /\ str2bool(result.v) = Ok(arg.x)
    /\ Called("_clean_attrib")
         => /\ result.ok
            /\ DOMAIN result.v = Present(arg.x, arg.attrs)
            /\ arg.x.rooted = B(FALSE) => result.v["rooted"] = S("false")
            /\ arg.x.rooted = B(TRUE) => result.v["rooted"] = S("true")
            /\ arg.x.branch_length_unit = I(0)
                 => result.v["branch_length_unit"] = S("0")
            /\ arg.x.branch_length_unit = F("0.0")
                 => result.v["branch_length_unit"] = S("0.0")
            /\ arg.x.branch_length_unit = S("")
                 => result.v["branch_length_unit"] = S("")

\* rooted false, rerootable absent, a zero unit and no type gave
\* rooted="false" and branch_length_unit="0" and nothing else
C16_Witness ==
    /\ Called("_clean_attrib")
    /\ arg.x.rooted = B(FALSE)
    /\ arg.x.rerootable = None
    /\ arg.x.branch_length_unit = I(0)
    /\ arg.x.type = None
    /\ result = Ok([rooted |-> S("false"), branch_length_unit |-> S("0")])

\* The elements of the file that carry integer attributes
ArchitectureElem == dest.kids[1].kids[1].kids[1].kids[1]
BinaryElem == dest.kids[1].kids[1].kids[2]

\* The value an integer attribute stands for: absent when the attribute is
\* absent or is not an integer
IntAttr(x, key) ==
    IF key \in DOMAIN x.attrib THEN _int(x.attrib[key]) ELSE None

\* The same, less an offset
IntAttrLess(x, key, n) ==
    IF IntAttr(x, key) = None THEN None ELSE I(IntAttr(x, key).v - n)

\* C14: whatever the integer attributes of binary_characters,
\* domain_architecture and domain hold, the file is read to the end, and each
\* field of the objects built holds the attribute's integer, or is absent
\* when the attribute is absent or unparseable.
C14_IntAttributes ==
    dest \in IntDocs
        => /\ pc # "failed"
           /\ pc = "done"
                => /\ result.phylogenies[1].clade.binary_characters.gained_count
                          = IntAttr(BinaryElem, "gained_count")
                   /\ result.phylogenies[1].clade.binary_characters.lost_count
                          = None
                   /\ result.phylogenies[1].clade.sequences[1]
                          .domain_architecture.length
                          = IntAttr(ArchitectureElem, "length")
                   /\ DomainsOf(result)[1].start
                          = IntAttrLess(ArchitectureElem.kids[1], "from", 1)
                   /\ DomainsOf(result)[1].end
                          = IntAttr(ArchitectureElem.kids[1], "to")

\* The clade element of the file, and the clade built from it
CladeElem == dest.kids[1].kids[1]
CladeBuilt == result.phylogenies[1].clade

\* The text of the first child of x with that tag, absent when there is none
ChildText(x, tag) ==
    IF TextsOf(x, Phy(tag)) = <<>> THEN None ELSE TextsOf(x, Phy(tag))[1]

\* The first child of x with that tag
Child(x, tag) == SelectSeq(x.kids, LAMBDA kid : kid.tag = Phy(tag))[1]

\* The branch length is given once, or not at all
OneBranchLength ==
    \/ "branch_length" \notin DOMAIN CladeElem.attrib
    \/ ChildText(CladeElem, "branch_length") = None

\* C15: a number that cannot be parsed never ends the parse, and the field it
\* stands for is absent: the branch length of a clade given as attribute or
\* as child, the value of a date, the latitude of a point, a color component.
C15_LocalRecovery ==
    (dest \in FloatDocs /\ OneBranchLength)
        => /\ pc # "failed"
           /\ pc = "done"
                => /\ CladeBuilt.branch_length
                          = (IF "branch_length" \in DOMAIN CladeElem.attrib
                             THEN _float(CladeElem.attrib["branch_length"])
                             ELSE _float(ChildText(CladeElem, "branch_length")))
                   /\ CladeBuilt.color.red
                          = _int(ChildText(Child(CladeElem, "color"), "red"))
                   /\ CladeBuilt.distributions[1].points[1].lat
                          = _float(ChildText(Child(Child(CladeElem,
                                                         "distribution"),
                                                   "point"), "lat"))
                   /\ CladeBuilt.date.value
                          = _float(ChildText(Child(CladeElem, "date"),
                                             "value"))

\* The children the child specs of Writer.clade, Writer.date and
\* Writer.events declare for an object, in declaration order
CladeOrder(c) ==
    Opt(c.name, "name") \o Opt(c.branch_length, "branch_length")
    \o Each(c.confidences, "confidence") \o Opt(c.width, "width")
    \o Opt(c.color, "color") \o Opt(c.node_id, "node_id")
    \o Each(c.taxonomies, "taxonomy") \o Each(c.sequences, "sequence")
    \o Opt(c.events, "events")
    \o Opt(c.binary_characters, "binary_characters")
    \o Each(c.distributions, "distribution") \o Opt(c.date, "date")
    \o Each(c.references, "reference") \o Each(c.properties, "property")
    \o Each(c.clades, "clade")

DateOrder(d) ==
    Opt(d.desc, "desc") \o Opt(d.value, "value")
    \o Opt(d.minimum, "minimum") \o Opt(d.maximum, "maximum")

EventsOrder(e) ==
    Opt(e.type, "type") \o Opt(e.duplications, "duplications")
    \o Opt(e.speciations, "speciations") \o Opt(e.losses, "losses")
    \o Opt(e.confidence, "confidence")

\* The number of singular fields of a clade that are set plus the lengths of
\* its lists
CladeCount(c) ==
    Cardinality({f \in {"name", "branch_length", "width", "color", "node_id",
                        "events", "binary_characters", "date"} :
                    c[f] # None})
    + Len(c.confidences) + Len(c.taxonomies) + Len(c.sequences)
    + Len(c.distributions) + Len(c.references) + Len(c.properties)
    + Len(c.clades) + Len(c.other)

IsConfidence(e) == dom[e].tag = Phy("confidence")

\* One Confidence per confidence element that is a direct child of p, in
\* document order
DirectConfidences(p) ==
    [i \in 1..Len(KidsOf(p, IsConfidence)) |->
        confidence(dom, KidsOf(p, IsConfidence)[i]).v]

\* C18: when _parse_clade has returned at the end event of its clade, the
\* clade's confidences are exactly those of the confidence elements that are
\* direct children of the clade, in document order; a confidence inside the
\* clade's events adds nothing.
C18_CladeConfidences ==
    \A i \in 1..Len(returns) :
        (/\ returns[i].fn = "clade"
         /\ returns[i].at = [ev |-> "end", id |-> returns[i].parent])
            => returns[i].obj.confidences = DirectConfidences(returns[i].parent)

IsDate(e) == dom[e].tag = Phy("date")

\* The end event of a child of a date has just been fetched, the date being
\* a direct child of a phylogeny
DateChildEnd ==
    /\ last.ev = "end"
    /\ last.id > 2
    /\ IsDate(ParentOf(last.id))
    /\ IsPhylogeny(ParentOf(ParentOf(last.id)))

\* C19: the end event of a desc, value, minimum or maximum child of a
\* phylogeny's date raises no PhyloXMLError, and when _parse_phylogeny has
\* returned at the end event of its phylogeny, the phylogeny's date is the one
\* built from its last date element.
C19_DateChildren ==
    /\ DateChildEnd => ~(pc = "failed" /\ err = "PhyloXMLError")
    /\ \A i \in 1..Len(returns) :
          (/\ returns[i].fn = "phylogeny"
           /\ returns[i].at = [ev |-> "end", id |-> returns[i].parent]
           /\ KidsOf(returns[i].parent, IsDate) # <<>>)
              => returns[i].obj.date
                     = date(dom, Last(KidsOf(returns[i].parent, IsDate))).v

\* C20: when _parse_phylogeny has returned at the end event of its phylogeny,
\* the phylogeny's confidences are exactly those of the confidence elements
\* that are direct children of the phylogeny, in document order; a confidence
\* inside a clade_relation or sequence_relation adds nothing.
C20_PhylogenyConfidences ==
    \A i \in 1..Len(returns) :
        (/\ returns[i].fn = "phylogeny"
         /\ returns[i].at = [ev |-> "end", id |-> returns[i].parent])
            => returns[i].obj.confidences = DirectConfidences(returns[i].parent)

IsUri(e) == dom[e].tag = Phy("uri")

\* C21: when _parse_sequence has returned at the end event of its sequence,
\* the sequence's uri is the one built from the uri element that is a direct
\* child of the sequence, and absent when there is none; a uri inside an
\* annotation does not set it.
C21_SequenceUri ==
    \A i \in 1..Len(returns) :
        (/\ returns[i].fn = "sequence"
         /\ returns[i].at = [ev |-> "end", id |-> returns[i].parent])
            => returns[i].obj.uri
                   = (IF KidsOf(returns[i].parent, IsUri) = <<>> THEN None
                      ELSE uri(dom, Last(KidsOf(returns[i].parent, IsUri))).v)

\* C22: a child with a text that is a number is read as that number, zero
\* included: a color component 0, an events count 0, a latitude 0.0 and a
\* date value 0.0 are numbers in the objects built, and a field is absent only
\* when the file has no such child.
C22_ZeroValues ==
    (dest \in ZeroDocs /\ pc = "done")
        => /\ CladeBuilt.color.red
                  = _int(ChildText(Child(CladeElem, "color"), "red"))
           /\ CladeBuilt.events.duplications
                  = _int(ChildText(Child(CladeElem, "events"), "duplications"))
           /\ CladeBuilt.distributions[1].points[1].lat
                  = _float(ChildText(Child(Child(CladeElem, "distribution"),
                                           "point"), "lat"))
           /\ CladeBuilt.date.value
                  = _float(ChildText(Child(CladeElem, "date"), "value"))

\* C23: every call of _parse_phylogeny, _parse_clade, _parse_sequence or
\* _parse_taxonomy started on the start event of an element returns on the
\* end event of that element: not at the end event of a descendant, and not
\* at a later event.
C23_FrameBoundaries ==
    \A i \in 1..Len(returns) :
        returns[i].fn \in {"phylogeny", "clade", "sequence", "taxonomy"}
            => returns[i].at = [ev |-> "end", id |-> returns[i].parent]

\* The position of element e among the open elements
OpenAt(e) == CHOOSE k \in 1..Len(open) : open[k] = e

\* The open elements below the element of frame j that its loop has seen
\* opened: those above the element of the next frame, when there is one
SeenOpen(j) ==
    SubSeq(open, OpenAt(frames[j].parent) + 1,
           IF j < Len(frames) THEN OpenAt(frames[j + 1].parent) - 1
           ELSE Len(open))

IsTracked(e) == local(dom[e].tag) \in _clade_tracked_tags

\* The tags of the open tracked elements of frame j, outermost first
OpenTracked(j) ==
    [i \in 1..Len(SelectSeq(SeenOpen(j), IsTracked)) |->
        local(dom[SelectSeq(SeenOpen(j), IsTracked)[i]].tag)]

WriteRaised == pc = "failed" /\ heap = <<>>

\* C25: when write() fails because an object of the aggregate cannot be
\* serialized, the destination is as it was before the call; a destination
\* that was written holds the complete tree of the aggregate.
C25_NoPartialOutput ==
    /\ WriteRaised => dest = None
    /\ dest # None
         => /\ WriterInit(ToPhyloxml(arg)).ok
            /\ dest = WriterInit(ToPhyloxml(arg)).v

\* A named clade whose events cannot be serialized: the name was serialized
\* before the failure, and nothing was written
C25_Witness ==
    /\ WriteRaised
    /\ err = "AttributeError"
    /\ arg \in CladeArgs
    /\ arg.phylogenies[1].clade.name = S("c")
    /\ arg.phylogenies[1].clade.events # None
    /\ dest = None

\* C26: split_namespace returns a pair for the tag of every element of the
\* document: (ns, name) for '{ns}name' and ('', tag) for a tag without a
\* namespace, the second component being local(tag); so the events of an
\* element without a namespace do not abort read().
C26_SplitNamespace ==
    /\ \A i \in DOMAIN dom :
          /\ Len(split_namespace(dom[i].tag)) = 2
          /\ split_namespace(dom[i].tag)[2] = local(dom[i].tag)
          /\ split_namespace(dom[i].tag)[1] =
                (IF dom[i].tag.ns = NoNS THEN "" ELSE dom[i].tag.ns)
    /\ (dom[last.id].tag.ns = NoNS => pc # "failed")

====
